---- MODULE Spec2Model ----
(***************************************************************************)
(* Model of the video-to-doc core: key-frame selection                     *)
(* (frame_selector.py), review-decision resolution (main.py,               *)
(* generate_final_pdf), redaction rendering and preview (redactor.py),     *)
(* Luhn validation and pattern detection (pii_detector.py), and the life   *)
(* of a job through its requests and background tasks (main.py).           *)
(*                                                                         *)
(* Each subsystem has its own specification (SpecSelect, SpecResolve,      *)
(* SpecRedact, SpecPreview, SpecLuhn, SpecDetect, SpecJob, SpecNames,      *)
(* SpecScore, SpecPdf); the variables of the other subsystems are idle     *)
(* there.                                                                  *)
(***************************************************************************)
EXTENDS Integers, Sequences, FiniteSets, TLC

VARIABLES
    \* ---- select_key_frames (frame_selector.py) ----
    frame_paths,        \* the argument: sequence of frame path ids, position = original index + 1
    max_embed,          \* the argument: the budget K
    sel_pc,             \* position in select_key_frames
    combined_scores,    \* sequence of per-frame combined scores (index i at position i+1)
    selected_indices,   \* the set selected_indices (0-based original indices)
    admitted,           \* history: the indices in the order selected_indices.add first admitted them
    boosted_scores,     \* the list boosted_scores after .sort(): sequence of <<idx, score>>
    segment_counts,     \* the list segment_counts (segment s at position s+1)
    sel_pos,            \* position of the running for loop in boosted_scores (1-based)
    sel_result,         \* the returned list of frame paths
    \* ---- generate_final_pdf (main.py), one key frame ----
    job_status,         \* jobs[job_id]["status"]
    frame_pii,          \* frame_info["pii_matches"]: sequence of match ids
    redaction_decisions,\* the frame's record in redaction_decisions: [present, list]
    pii_to_redact,      \* the list handed to apply_redactions
    gen_outcome,        \* "idle", "resolved" or "raised" (IndexError in the resolution)
    \* ---- apply_redactions (redactor.py) ----
    red_matches,        \* pii_matches: the sequence of match.region.bbox, <<x1, y1, x2, y2>>
    red_mode,           \* the argument mode
    red_pc,             \* "idle", "start", "loop", "saved" or "raised"
    red_pos,            \* position of the for loop in pii_matches (1-based)
    img,                \* the opened image: pixel <<x, y>> |-> what the pixel holds
    saved,              \* the image handed to img.save(output_path)
    red_boxes,          \* history: the box <<x1, y1, x2, y2>> each iteration transformed
    \* ---- generate_preview (redactor.py) ----
    prev_matches,       \* pii_matches: the sequence of match.region.bbox
    prev_pc,            \* "idle", "start", "loop", "saved" or "raised"
    prev_pos,           \* position of the for loop in pii_matches (1-based)
    prev_drawn,         \* what was drawn so far: per match the outlined box and the label's place
    \* ---- luhn_check (pii_detector.py) ----
    card_number,        \* the argument: a sequence of characters
    luhn_pc,            \* "idle", "called" or "returned"
    luhn_result,        \* the returned boolean
    \* ---- detect_pii (pii_detector.py) ----
    det_regions,        \* the argument regions: the text of each region, a sequence of words
    enable_optional,    \* the argument enable_optional, a sequence of names
    det_pc,             \* "idle", "called" or "returned"
    det_result,         \* the returned list of PIIMatch
    \* ---- one job of jobs (main.py) ----
    status,             \* jobs[job_id]["status"]
    status_log,         \* history: every value the status was given, in order
    pending,            \* the background tasks added and not yet started, per kind
    task_pc,            \* position of the running task: "idle", "extract", "select", "scan", "analyze" or "frames"
    requests,           \* history: the number of requests handled so far
    key_frame_count,    \* run_pipeline: len(key_frame_paths)
    scanned,            \* run_pipeline: the local key_frame_data, the matches of each frame scanned
    key_frame_data,     \* jobs[job_id]["key_frame_data"]: the matches of each key frame
    pipe_fault,         \* history: what raised in the last pipeline run
    pipe_end,           \* history: the status the last pipeline run ended with
    stored_decisions,   \* jobs[job_id]["redaction_decisions"]
    stored_mode,        \* jobs[job_id]["redaction_mode"], "unset" while the key is absent
    gen_decisions,      \* generate_final_pdf: the local redaction_decisions
    gen_mode,           \* generate_final_pdf: the local redaction_mode
    gen_frames,         \* generate_final_pdf: the local key_frame_data
    gen_pos,            \* generate_final_pdf: position of the loop (1-based)
    redacted_frames,    \* generate_final_pdf: redacted_frames, what each entry holds
    used,               \* history: per iteration, the decisions and mode it worked with and the job's fields then
    at_start,           \* history: the job's decisions and mode when the generation started
    failed_frame,       \* history: the frame whose iteration raised, or 0
    \* ---- the PII stage of run_pipeline for one frame (main.py, pii_detector.py) ----
    ner_regions,        \* text_regions: the text of each region, a sequence of words
    name_detection,     \* ENABLE_NAME_DETECTION
    spacy_loads,        \* whether import spacy and spacy.load succeed
    ner_pc,             \* "idle", "scan" or "done"
    pii_matches,        \* the frame's list pii_matches
    name_matches,       \* what detect_names_ner returned
    \* ---- the scoring loops of select_key_frames (frame_selector.py) ----
    sc_frames,          \* per frame: whether its file is missing, unreadable or ok, and its grayscale pixels
    sc_pc,              \* "idle", "differences", "stability" or "scored"
    sc_pos,             \* position of the running loop (1-based)
    images,             \* the list images: per frame its pixels, <<>> for None
    prev_img,           \* the local prev_img: pixels, <<>> for None
    differences,        \* the list differences, each score times the number of pixels
    stability_scores,   \* the list stability_scores, each score times StabilityScale
    \* ---- generate_pdf_v2 (pdf_generator.py) ----
    pdf_lines,          \* markdown_content.split: the lines, stripped
    pdf_frames,         \* redacted_frames: per frame number, whether it is a key and what its file is
    pdf_pc,             \* "idle", "lines", "built"
    pdf_pos,            \* position of the for loop in lines (1-based)
    story               \* the list story

selVars == <<frame_paths, max_embed, sel_pc, combined_scores, selected_indices,
             admitted, boosted_scores, segment_counts, sel_pos, sel_result>>

resVars == <<job_status, frame_pii, redaction_decisions, pii_to_redact, gen_outcome>>

redVars == <<red_matches, red_mode, red_pc, red_pos, img, saved, red_boxes>>

prevVars == <<prev_matches, prev_pc, prev_pos, prev_drawn>>

luhnVars == <<card_number, luhn_pc, luhn_result>>

detVars == <<det_regions, enable_optional, det_pc, det_result>>

pipeVars == <<key_frame_count, scanned, key_frame_data, pipe_fault, pipe_end>>
reviewVars == <<stored_decisions, stored_mode>>
genVars == <<gen_decisions, gen_mode, gen_frames, gen_pos, redacted_frames,
             used, at_start, failed_frame>>
jobVars == <<status, status_log, pending, task_pc, requests, pipeVars,
             reviewVars, genVars>>

namesVars == <<ner_regions, name_detection, spacy_loads, ner_pc, pii_matches,
               name_matches>>

scoreVars == <<sc_frames, sc_pc, sc_pos, images, prev_img, differences,
               stability_scores>>

pdfVars == <<pdf_lines, pdf_frames, pdf_pc, pdf_pos, story>>

vars == <<selVars, resVars, redVars, luhnVars, detVars, prevVars, jobVars,
          namesVars, scoreVars, pdfVars>>

\* the variables each subsystem leaves alone
notSel == <<jobVars, prevVars, resVars, redVars, luhnVars, detVars,
    namesVars, scoreVars, pdfVars>>
notRes == <<jobVars, prevVars, selVars, redVars, luhnVars, detVars,
    namesVars, scoreVars, pdfVars>>
notRed == <<jobVars, prevVars, selVars, resVars, luhnVars, detVars,
    namesVars, scoreVars, pdfVars>>
notLuhn == <<jobVars, prevVars, selVars, resVars, redVars, detVars,
    namesVars, scoreVars, pdfVars>>
notDet == <<jobVars, prevVars, selVars, resVars, redVars, luhnVars,
    namesVars, scoreVars, pdfVars>>
notPrev == <<jobVars, selVars, resVars, redVars, luhnVars, detVars,
    namesVars, scoreVars, pdfVars>>
notJob == <<selVars, resVars, redVars, luhnVars, detVars, prevVars,
    namesVars, scoreVars, pdfVars>>
notNames == <<selVars, resVars, redVars, luhnVars, detVars, prevVars, jobVars,
    scoreVars, pdfVars>>
notScore == <<selVars, resVars, redVars, luhnVars, detVars, prevVars, jobVars,
    namesVars, pdfVars>>
notPdf == <<selVars, resVars, redVars, luhnVars, detVars, prevVars, jobVars,
    namesVars, scoreVars>>

----------------------------------------------------------------------------
(* Bounds of the model *)

MaxFrames == 17
MaxBudget == 11
MaxMatches == 3
MaxDecisions == 2
ImgWidth == 8
ImgHeight == 8
MaxHead == 2
MaxTail == 19
MaxWords == 2
MaxKeyFrames == 2
MaxRequests == 3
MaxScored == 5
MaxLines == 3

\* the values a combined score takes in the model: 0 for a frame like its
\* neighbours, 1 for a frame that differs (a peak)
ScoreLevels == {0, 1}

\* how many frames of a list differ from their neighbours
PeakCounts == {0, 1, 2}

----------------------------------------------------------------------------
(* Helpers *)

Min2(a, b) == IF a < b THEN a ELSE b
Max2(a, b) == IF a > b THEN a ELSE b

SetMin(S) == CHOOSE x \in S : \A y \in S : x <= y

\* Python sorted(s) of a set of integers: the ascending sequence of its elements
RECURSIVE SortedSeq(_)
SortedSeq(S) ==
    IF S = {} THEN <<>>
    ELSE LET m == SetMin(S) IN <<m>> \o SortedSeq(S \ {m})

SeqRange(s) == {s[k] : k \in 1..Len(s)}

----------------------------------------------------------------------------
(* select_key_frames: the pure parts *)

\* int(n * 0.7) and int(n * 0.9); the float products truncate to these
\* integers for every n below 90, so for every n the model reaches
Last30PercentStart(n) == (7 * n) \div 10
Last10PercentStart(n) == (9 * n) \div 10

\* faulty variant: the seeding without frame 0: selected_indices = set()
AnchorOrderNoFirst(n) ==
    LET last == n - 1
        lastFive == [k \in 1..(last - Max2(0, last - 4) + 1) |-> Max2(0, last - 4) + k - 1]
        czs == Max2(0, (7 * n) \div 10)
        zoneLen == Max2(0, (last - 4) - czs)
        zone == [k \in 1..zoneLen |-> czs + k - 1]
    IN lastFive \o zone

\* faulty variant: the seeding without the completion zone
AnchorOrderNoZone(n) ==
    LET last == n - 1
        lastFive == [k \in 1..(last - Max2(0, last - 4) + 1) |-> Max2(0, last - 4) + k - 1]
    IN <<0>> \o lastFive

\* the anchors in the order the code adds them: 0, the last 5 frames, then
\* the completion zone before the last 5
AnchorOrder(n) ==
    LET last == n - 1
        lastFive == [k \in 1..(last - Max2(0, last - 4) + 1) |-> Max2(0, last - 4) + k - 1]
        czs == Max2(0, Last30PercentStart(n))
        zoneLen == Max2(0, (last - 4) - czs)
        zone == [k \in 1..zoneLen |-> czs + k - 1]
    IN <<0>> \o lastFive \o zone

\* a sequence with every later occurrence of a value dropped
RECURSIVE Dedup(_, _)
Dedup(s, seen) ==
    IF s = <<>> THEN <<>>
    ELSE IF Head(s) \in seen THEN Dedup(Tail(s), seen)
         ELSE <<Head(s)>> \o Dedup(Tail(s), seen \cup {Head(s)})

Anchors(n) == SeqRange(AnchorOrder(n))

\* twice the boosted score (score * 2.0, score * 1.5, score), so that it
\* stays an integer; the order of the boosted scores is unchanged
BoostedScore(idx, score, n) ==
    IF idx >= Last10PercentStart(n) THEN 4 * score
    ELSE IF idx >= Last30PercentStart(n) THEN 3 * score
    ELSE 2 * score

BoostList(scores) ==
    [k \in 1..Len(scores) |-> <<k - 1, BoostedScore(k - 1, scores[k], Len(scores))>>]

\* list.sort(key=score, reverse=True): descending by score, and stable, so
\* entries of equal score keep their order in the list
\* faulty variant: a sort that puts an entry before the entries of equal score
RECURSIVE InsertDescUnstable(_, _)
InsertDescUnstable(sorted, e) ==
    IF sorted = <<>> THEN <<e>>
    ELSE IF Head(sorted)[2] > e[2]
         THEN <<Head(sorted)>> \o InsertDescUnstable(Tail(sorted), e)
         ELSE <<e>> \o sorted

RECURSIVE InsertDesc(_, _)
InsertDesc(sorted, e) ==
    IF sorted = <<>> THEN <<e>>
    ELSE IF Head(sorted)[2] >= e[2] THEN <<Head(sorted)>> \o InsertDesc(Tail(sorted), e)
         ELSE <<e>> \o sorted

RECURSIVE SortDescStable(_)
SortDescStable(s) ==
    IF s = <<>> THEN <<>>
    ELSE InsertDesc(SortDescStable(SubSeq(s, 1, Len(s) - 1)), s[Len(s)])

\* the guard of the early return: len(frame_paths) <= max_embed
WithinBudgetStrict(n, k) == n < k
WithinBudget(n, k) == n <= k

NumSegments(k) == Min2(5, k \div 3)
SegmentSize(n, k) == n \div NumSegments(k)
FramesPerSegment(k) == k \div NumSegments(k)

SegmentOf(idx, n, k) == Min2(idx \div SegmentSize(n, k), NumSegments(k) - 1)

IsPriorityFrame(idx, n) ==
    idx = 0 \/ idx >= n - 3 \/ idx >= Last10PercentStart(n)

\* faulty variant: the return without sorted(): the frames in admission order
ReturnedFramesUnsorted(paths, sel) ==
    [k \in 1..Len(admitted) |-> paths[admitted[k] + 1]]

\* [frame_paths[i] for i in sorted(selected_indices)]
ReturnedFrames(paths, sel) ==
    LET order == SortedSeq(sel) IN [k \in 1..Len(order) |-> paths[order[k] + 1]]

----------------------------------------------------------------------------
(* The idle values of each subsystem's variables *)

\* redaction_decisions as generate_final_pdf sees it for the frame: whether
\* frame_id is a key of it, and the list stored under the key
NoRecord == [present |-> FALSE, list |-> <<>>]
Record(list) == [present |-> TRUE, list |-> list]

ResIdle ==
    /\ job_status = "none"
    /\ frame_pii = <<>>
    /\ redaction_decisions = NoRecord
    /\ pii_to_redact = <<>>
    /\ gen_outcome = "idle"

RedIdle ==
    /\ red_matches = <<>>
    /\ red_mode = "none"
    /\ red_pc = "idle"
    /\ red_pos = 0
    /\ img = <<>>
    /\ saved = <<>>
    /\ red_boxes = <<>>

PrevIdle ==
    /\ prev_matches = <<>>
    /\ prev_pc = "idle"
    /\ prev_pos = 0
    /\ prev_drawn = <<>>

JobIdle ==
    /\ status = "none"
    /\ status_log = <<>>
    /\ pending = <<>>
    /\ task_pc = "idle"
    /\ requests = 0
    /\ key_frame_count = 0
    /\ scanned = <<>>
    /\ key_frame_data = <<>>
    /\ pipe_fault = "none"
    /\ pipe_end = "none"
    /\ stored_decisions = <<>>
    /\ stored_mode = "unset"
    /\ gen_decisions = <<>>
    /\ gen_mode = "none"
    /\ gen_frames = <<>>
    /\ gen_pos = 0
    /\ redacted_frames = <<>>
    /\ used = <<>>
    /\ at_start = <<>>
    /\ failed_frame = 0

NamesIdle ==
    /\ ner_regions = <<>>
    /\ name_detection = FALSE
    /\ spacy_loads = FALSE
    /\ ner_pc = "idle"
    /\ pii_matches = <<>>
    /\ name_matches = <<>>

ScoreIdle ==
    /\ sc_frames = <<>>
    /\ sc_pc = "idle"
    /\ sc_pos = 0
    /\ images = <<>>
    /\ prev_img = <<>>
    /\ differences = <<>>
    /\ stability_scores = <<>>

PdfIdle ==
    /\ pdf_lines = <<>>
    /\ pdf_frames = <<>>
    /\ pdf_pc = "idle"
    /\ pdf_pos = 0
    /\ story = <<>>

LuhnIdle ==
    /\ card_number = <<>>
    /\ luhn_pc = "idle"
    /\ luhn_result = FALSE

DetIdle ==
    /\ det_regions = <<>>
    /\ enable_optional = <<>>
    /\ det_pc = "idle"
    /\ det_result = <<>>

----------------------------------------------------------------------------
(* select_key_frames: the inputs *)

\* the frame lists: n distinct paths, named in ascending or in descending order
PathLists ==
    UNION {{[k \in 1..n |-> k], [k \in 1..n |-> n + 1 - k]} : n \in 0..MaxFrames}

\* the score tables: a number in PeakCounts of the frames differ from their
\* neighbours
RECURSIVE PeakSetsOf(_, _)
PeakSetsOf(n, c) ==
    IF c = 0 THEN {{}}
    ELSE {P \cup {i} : P \in PeakSetsOf(n, c - 1), i \in 1..n}

PeakSets(n) == {P \in UNION {PeakSetsOf(n, c) : c \in PeakCounts} : Cardinality(P) \in PeakCounts}

ScoreTables(n) ==
    UNION {{[k \in 1..n |-> IF k \in P THEN v[k] ELSE 0] : v \in [P -> ScoreLevels \ {0}]}
           : P \in PeakSets(n)}

SelInit ==
    /\ frame_paths \in PathLists
    /\ max_embed \in 1..MaxBudget
    /\ sel_pc = "start"
    /\ combined_scores = <<>>
    /\ selected_indices = {}
    /\ admitted = <<>>
    /\ boosted_scores = <<>>
    /\ segment_counts = <<>>
    /\ sel_pos = 0
    /\ sel_result = <<>>
    /\ ResIdle
    /\ RedIdle
    /\ LuhnIdle
    /\ DetIdle
    /\ PrevIdle
    /\ JobIdle
    /\ NamesIdle
    /\ ScoreIdle
    /\ PdfIdle

----------------------------------------------------------------------------
(* select_key_frames: the steps *)

N == Len(frame_paths)

\* if len(frame_paths) <= max_embed: return frame_paths
EarlyReturn ==
    /\ UNCHANGED notSel
    /\ sel_pc = "start"
    /\ WithinBudget(N, max_embed)
    /\ sel_result' = frame_paths
    /\ sel_pc' = "done"
    /\ UNCHANGED <<frame_paths, max_embed, combined_scores, selected_indices,
                   admitted, boosted_scores, segment_counts, sel_pos>>

\* the scoring loops, the anchors, the boost and the sort, up to the first pass
Prepare ==
    /\ UNCHANGED notSel
    /\ sel_pc = "start"
    /\ ~WithinBudget(N, max_embed)
    /\ \E scores \in ScoreTables(N) :
        /\ combined_scores' = scores
        /\ boosted_scores' = SortDescStable(BoostList(scores))
    /\ selected_indices' = Anchors(N)
    /\ admitted' = Dedup(AnchorOrder(N), {})
    /\ IF NumSegments(max_embed) = 0
       THEN \* segment_size = len(frame_paths) // num_segments raises ZeroDivisionError
            /\ sel_pc' = "raised"
            /\ segment_counts' = <<>>
            /\ sel_pos' = 0
       ELSE /\ sel_pc' = "pass1"
            /\ segment_counts' = [s \in 1..NumSegments(max_embed) |-> 0]
            /\ sel_pos' = 1
    /\ UNCHANGED <<frame_paths, max_embed, sel_result>>

\* faulty variant: a pass that stops only at the end of the list
LoopOverNoBudget == sel_pos > Len(boosted_scores)

\* a pass stops at the end of the list, or at the top of an iteration with
\* len(selected_indices) >= max_embed (break)
LoopOver == sel_pos > Len(boosted_scores) \/ Cardinality(selected_indices) >= max_embed

\* one iteration of the first pass
Pass1Step ==
    /\ UNCHANGED notSel
    /\ sel_pc = "pass1"
    /\ ~LoopOver
    /\ LET idx == boosted_scores[sel_pos][1]
           segment == SegmentOf(idx, N, max_embed)
       IN IF segment_counts[segment + 1] < FramesPerSegment(max_embed)
             \/ IsPriorityFrame(idx, N)
          THEN /\ selected_indices' = selected_indices \cup {idx}
               /\ admitted' = IF idx \in selected_indices THEN admitted
                              ELSE Append(admitted, idx)
               /\ segment_counts' =
                    [segment_counts EXCEPT ![segment + 1] = @ + 1]
          ELSE UNCHANGED <<selected_indices, admitted, segment_counts>>
    /\ sel_pos' = sel_pos + 1
    /\ UNCHANGED <<frame_paths, max_embed, sel_pc, combined_scores, boosted_scores,
                   sel_result>>

\* the first pass ends (break, or the list is exhausted)
Pass1Exit ==
    /\ UNCHANGED notSel
    /\ sel_pc = "pass1"
    /\ LoopOver
    /\ sel_pc' = "pass2"
    /\ sel_pos' = 1
    /\ UNCHANGED <<frame_paths, max_embed, combined_scores, selected_indices,
                   admitted, boosted_scores, segment_counts, sel_result>>

\* one iteration of the second pass
Pass2Step ==
    /\ UNCHANGED notSel
    /\ sel_pc = "pass2"
    /\ ~LoopOver
    /\ LET idx == boosted_scores[sel_pos][1]
       IN IF idx \notin selected_indices
          THEN /\ selected_indices' = selected_indices \cup {idx}
               /\ admitted' = Append(admitted, idx)
          ELSE UNCHANGED <<selected_indices, admitted>>
    /\ sel_pos' = sel_pos + 1
    /\ UNCHANGED <<frame_paths, max_embed, sel_pc, combined_scores, boosted_scores,
                   segment_counts, sel_result>>

\* the second pass ends and the function returns
Return ==
    /\ UNCHANGED notSel
    /\ sel_pc = "pass2"
    /\ LoopOver
    /\ sel_result' = ReturnedFrames(frame_paths, selected_indices)
    /\ sel_pc' = "done"
    /\ UNCHANGED <<frame_paths, max_embed, combined_scores, selected_indices,
                   admitted, boosted_scores, segment_counts, sel_pos>>

SelNext == EarlyReturn \/ Prepare \/ Pass1Step \/ Pass1Exit \/ Pass2Step \/ Return

SpecSelect == SelInit /\ [][SelNext]_vars

----------------------------------------------------------------------------
(* generate_final_pdf: the resolution of one key frame's decisions *)

\* the indices a decision entry carries in the model: every class of index
\* for a frame of up to MaxMatches matches (valid, too large, negative within
\* the list, negative beyond it)
DecisionIndices == (0 - MaxMatches - 1)..MaxMatches

\* the "redact" field of an entry: true, false, or the key is absent
DecisionEntries == [index : DecisionIndices, redact : {"true", "false", "absent"}]

DecisionLists == UNION {[1..len -> DecisionEntries] : len \in 0..MaxDecisions}

\* dec.get("redact", True)
DecRedact(dec) == dec.redact \in {"true", "absent"}

\* the filter of the list comprehension:
\* dec.get("redact", True) and dec["index"] < len(frame_pii)
Passes(dec, pii) == DecRedact(dec) /\ dec.index < Len(pii)

\* Python's list indexing frame_pii[i]: a negative i counts from the end, and
\* an i below -len raises IndexError (i >= len is filtered out before)
IndexRaises(i, pii) == i < 0 - Len(pii)
PyIndex(pii, i) == IF i >= 0 THEN pii[i + 1] ELSE pii[Len(pii) + i + 1]

\* faulty variant: no record: redact nothing
ResolveFailOpen(pii, record) ==
    IF ~record.present THEN [raised |-> FALSE, list |-> <<>>]
    ELSE LET kept == SelectSeq(record.list, LAMBDA dec : Passes(dec, pii))
         IN IF \E k \in 1..Len(kept) : IndexRaises(kept[k].index, pii)
            THEN [raised |-> TRUE, list |-> <<>>]
            ELSE [raised |-> FALSE,
                  list |-> [k \in 1..Len(kept) |-> PyIndex(pii, kept[k].index)]]

\* lines 356-366: the matches to redact for a frame, or the IndexError
Resolve(pii, record) ==
    IF ~record.present THEN [raised |-> FALSE, list |-> pii]
    ELSE LET kept == SelectSeq(record.list, LAMBDA dec : Passes(dec, pii))
         IN IF \E k \in 1..Len(kept) : IndexRaises(kept[k].index, pii)
            THEN [raised |-> TRUE, list |-> <<>>]
            ELSE [raised |-> FALSE,
                  list |-> [k \in 1..Len(kept) |-> PyIndex(pii, kept[k].index)]]

SelIdle ==
    /\ frame_paths = <<>>
    /\ max_embed = 0
    /\ sel_pc = "idle"
    /\ combined_scores = <<>>
    /\ selected_indices = {}
    /\ admitted = <<>>
    /\ boosted_scores = <<>>
    /\ segment_counts = <<>>
    /\ sel_pos = 0
    /\ sel_result = <<>>

\* a job that is ready for review, with the matches run_pipeline stored for
\* the frame and the decisions the last PUT /redactions stored
ResInit ==
    /\ SelIdle
    /\ RedIdle
    /\ LuhnIdle
    /\ DetIdle
    /\ PrevIdle
    /\ JobIdle
    /\ NamesIdle
    /\ ScoreIdle
    /\ PdfIdle
    /\ job_status = "ready_for_review"
    /\ \E n \in 0..MaxMatches : frame_pii = [k \in 1..n |-> k]
    /\ redaction_decisions \in {Record(l) : l \in DecisionLists} \cup {NoRecord}
    /\ pii_to_redact = <<>>
    /\ gen_outcome = "idle"

\* generate_final_pdf on a job that is not ready for review
GenerateNotReady ==
    /\ UNCHANGED notRes
    /\ job_status \notin {"ready_for_review", "none"}
    /\ job_status' = "error"
    /\ UNCHANGED <<frame_pii, redaction_decisions, pii_to_redact, gen_outcome>>

\* generate_final_pdf on a job that is ready: the resolution, then the
\* rendering and the document, either of which may raise
GenerateFinalPdf ==
    /\ UNCHANGED notRes
    /\ job_status = "ready_for_review"
    /\ LET r == Resolve(frame_pii, redaction_decisions)
       IN IF r.raised
          THEN /\ gen_outcome' = "raised"
               /\ pii_to_redact' = <<>>
               /\ job_status' = "error"
          ELSE /\ gen_outcome' = "resolved"
               /\ pii_to_redact' = r.list
               /\ job_status' \in {"complete", "error"}
    /\ UNCHANGED <<frame_pii, redaction_decisions>>

ResNext == GenerateNotReady \/ GenerateFinalPdf

SpecResolve == ResInit /\ [][ResNext]_vars

----------------------------------------------------------------------------
(* apply_redactions *)

\* padding = 5
Padding == 5

Pixels == (0..(ImgWidth - 1)) \X (0..(ImgHeight - 1))

\* what a pixel holds: the source image's value at that place, the fill
\* colour, or the value a blur or a pixelation of its region wrote
SourceImage == [p \in Pixels |-> "src"]

\* the text regions of the model: one pixel wide and high, anywhere in the
\* image (x1 < x2, y1 < y2, inside the pixel bounds)
RegionBoxes ==
    {<<x, y, x + 1, y + 1>> : x \in 0..(ImgWidth - 1), y \in 0..(ImgHeight - 1)}

\* the numbers of matches of a call
MatchCounts == {0, 1, 2}

MatchLists == UNION {[1..n -> RegionBoxes] : n \in MatchCounts}

\* an unknown mode takes no branch of the if/elif chain
Modes == {"blur", "black", "pixelate", "other"}

\* faulty variant: the box without the padding
PaddedBoxNoPadding(bbox) ==
    <<Max2(0, bbox[1]), Max2(0, bbox[2]),
      Min2(ImgWidth, bbox[3]), Min2(ImgHeight, bbox[4])>>

\* faulty variant: the padded box without the clamping
PaddedBoxNoClamp(bbox) ==
    <<bbox[1] - Padding, bbox[2] - Padding, bbox[3] + Padding, bbox[4] + Padding>>

\* lines 41-44: pad by 5, clamp to the image
PaddedBox(bbox) ==
    <<Max2(0, bbox[1] - Padding), Max2(0, bbox[2] - Padding),
      Min2(ImgWidth, bbox[3] + Padding), Min2(ImgHeight, bbox[4] + Padding)>>

\* ImageDraw.rectangle([x1, y1, x2, y2]) covers both end points
InRectangle(p, b) ==
    b[1] <= p[1] /\ p[1] <= b[3] /\ b[2] <= p[2] /\ p[2] <= b[4]

\* img.crop((x1, y1, x2, y2)) and the paste of its result at (x1, y1) cover
\* x1 <= x < x2, y1 <= y < y2
InCrop(p, b) ==
    b[1] <= p[1] /\ p[1] < b[3] /\ b[2] <= p[2] /\ p[2] < b[4]

\* one iteration of the loop over pii_matches
Redacted(image, bbox, mode) ==
    LET b == PaddedBox(bbox)
    IN [p \in Pixels |->
          IF mode = "black" /\ InRectangle(p, b) THEN "black"
          ELSE IF mode = "blur" /\ InCrop(p, b) THEN "blurred"
          ELSE IF mode = "pixelate" /\ InCrop(p, b) THEN "pixelated"
          ELSE image[p]]

RedInit ==
    /\ SelIdle
    /\ ResIdle
    /\ LuhnIdle
    /\ DetIdle
    /\ PrevIdle
    /\ JobIdle
    /\ NamesIdle
    /\ ScoreIdle
    /\ PdfIdle
    /\ red_matches \in MatchLists
    /\ red_mode \in Modes
    /\ red_pc = "start"
    /\ red_pos = 0
    /\ img = <<>>
    /\ saved = <<>>
    /\ red_boxes = <<>>

\* img = Image.open(image_path)
OpenImage ==
    /\ UNCHANGED notRed
    /\ red_pc = "start"
    /\ img' = SourceImage
    /\ red_pos' = 1
    /\ red_pc' = "loop"
    /\ UNCHANGED <<red_matches, red_mode, saved, red_boxes>>

\* Image.open raises (unreadable file): logged and raised again
OpenFails ==
    /\ UNCHANGED notRed
    /\ red_pc = "start"
    /\ red_pc' = "raised"
    /\ UNCHANGED <<red_matches, red_mode, red_pos, img, saved, red_boxes>>

RedactStep ==
    /\ UNCHANGED notRed
    /\ red_pc = "loop"
    /\ red_pos <= Len(red_matches)
    /\ img' = Redacted(img, red_matches[red_pos], red_mode)
    /\ red_boxes' = Append(red_boxes, PaddedBox(red_matches[red_pos]))
    /\ red_pos' = red_pos + 1
    /\ UNCHANGED <<red_matches, red_mode, red_pc, saved>>

\* img.save(output_path, quality=90); return output_path
SaveImage ==
    /\ UNCHANGED notRed
    /\ red_pc = "loop"
    /\ red_pos > Len(red_matches)
    /\ saved' = img
    /\ red_pc' = "saved"
    /\ UNCHANGED <<red_matches, red_mode, red_pos, img, red_boxes>>

RedNext == OpenImage \/ OpenFails \/ RedactStep \/ SaveImage

SpecRedact == RedInit /\ [][RedNext]_vars

----------------------------------------------------------------------------
(* generate_preview *)

\* The label's text is match.pii_type; the model keeps the place of the label.
LabelRise == 15

PrevInit ==
    /\ SelIdle
    /\ ResIdle
    /\ RedIdle
    /\ LuhnIdle
    /\ DetIdle
    /\ JobIdle
    /\ NamesIdle
    /\ ScoreIdle
    /\ PdfIdle
    /\ prev_matches \in MatchLists
    /\ prev_pc = "start"
    /\ prev_pos = 0
    /\ prev_drawn = <<>>

\* img = Image.open(image_path); draw = ImageDraw.Draw(img)
PreviewOpen ==
    /\ UNCHANGED notPrev
    /\ prev_pc = "start"
    /\ prev_pos' = 1
    /\ prev_pc' = "loop"
    /\ UNCHANGED <<prev_matches, prev_drawn>>

\* Image.open raises: logged and raised again
PreviewOpenFails ==
    /\ UNCHANGED notPrev
    /\ prev_pc = "start"
    /\ prev_pc' = "raised"
    /\ UNCHANGED <<prev_matches, prev_pos, prev_drawn>>

\* draw.rectangle(bbox, outline='red', width=3);
\* draw.text((bbox[0], bbox[1] - 15), match.pii_type, fill='red')
PreviewStep ==
    /\ UNCHANGED notPrev
    /\ prev_pc = "loop"
    /\ prev_pos <= Len(prev_matches)
    /\ LET bbox == prev_matches[prev_pos]
       IN prev_drawn' = Append(prev_drawn,
                               [outline |-> bbox,
                                label_at |-> <<bbox[1], bbox[2] - LabelRise>>])
    /\ prev_pos' = prev_pos + 1
    /\ UNCHANGED <<prev_matches, prev_pc>>

\* img.save(output_path, quality=90); return output_path
PreviewSave ==
    /\ UNCHANGED notPrev
    /\ prev_pc = "loop"
    /\ prev_pos > Len(prev_matches)
    /\ prev_pc' = "saved"
    /\ UNCHANGED <<prev_matches, prev_pos, prev_drawn>>

PrevNext == PreviewOpen \/ PreviewOpenFails \/ PreviewStep \/ PreviewSave

SpecPreview == PrevInit /\ [][PrevNext]_vars

----------------------------------------------------------------------------
(* luhn_check *)

DigitChars == <<"0", "1", "2", "3", "4", "5", "6", "7", "8", "9">>

\* d.isdigit() and int(d), on the characters of the model
IsDigit(c) == \E v \in 1..10 : DigitChars[v] = c
IntOf(c) == (CHOOSE v \in 1..10 : DigitChars[v] = c) - 1

\* digits = [int(d) for d in card_number if d.isdigit()]
RECURSIVE DigitsOf(_)
DigitsOf(str) ==
    IF str = <<>> THEN <<>>
    ELSE IF IsDigit(Head(str)) THEN <<IntOf(Head(str))>> \o DigitsOf(Tail(str))
         ELSE DigitsOf(Tail(str))

\* the body of the loop for the digit at position i of reversed(digits)
LuhnTerm(i, digit) ==
    IF i % 2 = 1
    THEN IF 2 * digit > 9 THEN 2 * digit - 9 ELSE 2 * digit
    ELSE digit

\* faulty variant: the loop over enumerate(digits): positions counted from the left
RECURSIVE ChecksumFromLeft(_, _)
ChecksumFromLeft(digits, i) ==
    IF i >= Len(digits) THEN 0
    ELSE LuhnTerm(i, digits[i + 1]) + ChecksumFromLeft(digits, i + 1)

\* the loop over enumerate(reversed(digits)), from iteration i on
RECURSIVE Checksum(_, _)
Checksum(digits, i) ==
    IF i >= Len(digits) THEN 0
    ELSE LuhnTerm(i, digits[Len(digits) - i]) + Checksum(digits, i + 1)

luhn_check(str) ==
    LET digits == DigitsOf(str)
    IN IF Len(digits) < 13 \/ Len(digits) > 19 THEN FALSE
       ELSE Checksum(digits, 0) % 10 = 0

\* the strings of the model: a run of one digit, then a run of another, typed
\* plain or with a separator after every fourth digit
Run(c, len) == [k \in 1..len |-> c]

RECURSIVE Grouped(_, _)
Grouped(str, sep) ==
    IF Len(str) <= 4 THEN str
    ELSE SubSeq(str, 1, 4) \o <<sep>> \o Grouped(SubSeq(str, 5, Len(str)), sep)

CardStrings ==
    UNION {{Run(DigitChars[a], p) \o Run(DigitChars[b], q),
            Grouped(Run(DigitChars[a], p) \o Run(DigitChars[b], q), " "),
            Grouped(Run(DigitChars[a], p) \o Run(DigitChars[b], q), "-")}
           : a \in 1..10, b \in 1..10, p \in 0..MaxHead, q \in 0..MaxTail}

LuhnInit ==
    /\ SelIdle
    /\ ResIdle
    /\ RedIdle
    /\ DetIdle
    /\ PrevIdle
    /\ JobIdle
    /\ NamesIdle
    /\ ScoreIdle
    /\ PdfIdle
    /\ card_number \in CardStrings
    /\ luhn_pc = "called"
    /\ luhn_result = FALSE

LuhnReturn ==
    /\ UNCHANGED notLuhn
    /\ luhn_pc = "called"
    /\ luhn_result' = luhn_check(card_number)
    /\ luhn_pc' = "returned"
    /\ UNCHANGED card_number

LuhnNext == LuhnReturn

SpecLuhn == LuhnInit /\ [][LuhnNext]_vars

----------------------------------------------------------------------------
(* detect_pii: the patterns and the texts *)

\* the keys of PII_PATTERNS and of OPTIONAL_PATTERNS, in the order of the dicts
PII_PATTERNS ==
    <<"email", "phone", "ssn", "credit_card", "ip_address", "user_path_unix",
      "user_path_windows", "aws_key", "api_key_openai", "api_key_github">>

OPTIONAL_PATTERNS == <<"url", "date">>

\* The text of a region is a sequence of words, written " | " apart, so that
\* no match spans two words.  The words, as sequences of characters:
EmailWord == <<"a", "@", "b", ".", "i", "o">>
CountryPrefix == <<"+", "1", " ">>
PhoneWord == <<"5", "5", "5", "-", "1", "2", "3", "-", "4", "5", "6", "7">>
PrefixedPhoneWord == CountryPrefix \o PhoneWord
SsnWord == <<"1", "2", "3", "-", "4", "5", "-", "6", "7", "8", "9">>
PlainCardWord == <<"4">> \o Run("1", 15)
ValidCardWord == Grouped(PlainCardWord, " ")
InvalidCardWord == Grouped(Run("1", 16), " ")
KeyPrefix == <<"A", "K", "I", "A">>
AwsKeyWord == KeyPrefix \o Run("A", 16)
UrlWord == <<"h", "t", "t", "p", ":", "/", "/", "b", ".", "i", "o">>
DateWord == <<"1", "/", "2", "/", "2", "4">>

Words ==
    {EmailWord, PhoneWord, PrefixedPhoneWord, SsnWord, PlainCardWord,
     ValidCardWord, InvalidCardWord, AwsKeyWord, UrlWord, DateWord}

\* a match of a pattern without capturing groups, and of one with one group
WholeMatch(text) == [whole |-> text, groups |-> <<>>]
GroupMatch(text, group) == [whole |-> text, groups |-> <<group>>]

\* What the pattern of pii_type matches in one word: the matches from left to
\* right, each with the whole matched text and the text of its capturing
\* groups.  The phone pattern has one group, the optional country prefix; the
\* aws_key pattern has one group, the four-letter prefix; the others have none.
\* A group that took no part in the match has the empty text.
WordMatches(pii_type, word) ==
    CASE pii_type = "email" /\ word = EmailWord -> <<WholeMatch(word)>>
      [] pii_type = "phone" /\ word = PhoneWord -> <<GroupMatch(word, <<>>)>>
      [] pii_type = "phone" /\ word = PrefixedPhoneWord ->
            <<GroupMatch(word, CountryPrefix)>>
      [] pii_type = "phone" /\ word = PlainCardWord ->
            <<GroupMatch(SubSeq(word, 1, 10), <<>>)>>
      [] pii_type = "ssn" /\ word = SsnWord -> <<WholeMatch(word)>>
      [] pii_type = "credit_card"
            /\ word \in {PlainCardWord, ValidCardWord, InvalidCardWord} ->
            <<WholeMatch(word)>>
      [] pii_type = "aws_key" /\ word = AwsKeyWord ->
            <<GroupMatch(word, KeyPrefix)>>
      [] pii_type = "url" /\ word = UrlWord -> <<WholeMatch(word)>>
      [] pii_type = "date" /\ word = DateWord -> <<WholeMatch(word)>>
      [] OTHER -> <<>>

\* the matches of the pattern in a text, from left to right
RECURSIVE re_finditer(_, _)
re_finditer(pii_type, text) ==
    IF text = <<>> THEN <<>>
    ELSE WordMatches(pii_type, Head(text)) \o re_finditer(pii_type, Tail(text))

\* re.findall: per match, the whole text when the pattern has no capturing
\* group and the text of the group when it has one (no pattern has two)
re_findall(pii_type, text) ==
    LET ms == re_finditer(pii_type, text)
    IN [k \in 1..Len(ms) |->
          IF ms[k].groups = <<>> THEN ms[k].whole ELSE ms[k].groups[1]]

----------------------------------------------------------------------------
(* detect_pii *)

\* active_patterns: PII_PATTERNS, then each enabled name that is a key of
\* OPTIONAL_PATTERNS, in the order the names first come
\* faulty variant: every optional pattern is active whatever is enabled
ActivePatternsAll(enabled) == PII_PATTERNS \o OPTIONAL_PATTERNS

ActivePatterns(enabled) ==
    PII_PATTERNS
      \o Dedup(SelectSeq(enabled, LAMBDA name : name \in SeqRange(OPTIONAL_PATTERNS)),
               SeqRange(PII_PATTERNS))

\* faulty variant: the Luhn check is left out
CardAcceptedAlways(matched_text) == TRUE

\* card_digits = ''.join(c for c in matched_text if c.isdigit());
\* luhn_check(card_digits)
CardAccepted(matched_text) == luhn_check(SelectSeq(matched_text, IsDigit))

Confidence(pii_type) ==
    IF pii_type \in SeqRange(PII_PATTERNS) THEN "high" ELSE "medium"

\* faulty variant: the first candidate that passes the validation is taken
RECURSIVE ScanRegionFirstValid(_, _, _)
ScanRegionFirstValid(region, text, patterns) ==
    IF patterns = <<>> THEN <<>>
    ELSE LET pii_type == Head(patterns)
             found == IF pii_type = "credit_card"
                      THEN SelectSeq(re_findall(pii_type, text), CardAccepted)
                      ELSE re_findall(pii_type, text)
             rest == ScanRegionFirstValid(region, text, Tail(patterns))
         IN IF found = <<>> THEN rest
            ELSE <<[region |-> region, pii_type |-> pii_type,
                    confidence |-> Confidence(pii_type),
                    matched_text |-> found[1]]>> \o rest

\* the inner loop over active_patterns.items() for one region
RECURSIVE ScanRegion(_, _, _)
ScanRegion(region, text, patterns) ==
    IF patterns = <<>> THEN <<>>
    ELSE LET pii_type == Head(patterns)
             found == re_findall(pii_type, text)
             rest == ScanRegion(region, text, Tail(patterns))
         IN IF found = <<>> THEN rest
            ELSE IF pii_type = "credit_card" /\ ~CardAccepted(found[1]) THEN rest
            ELSE <<[region |-> region, pii_type |-> pii_type,
                    confidence |-> Confidence(pii_type),
                    matched_text |-> found[1]]>> \o rest

\* the outer loop over regions, from region r on; a match names its region by
\* the region's position in the list
RECURSIVE ScanFrom(_, _, _)
ScanFrom(r, regions, patterns) ==
    IF r > Len(regions) THEN <<>>
    ELSE ScanRegion(r, regions[r], patterns) \o ScanFrom(r + 1, regions, patterns)

detect_pii(regions, enabled) == ScanFrom(1, regions, ActivePatterns(enabled))

\* the numbers of regions of a call
RegionCounts == {0, 1, 2}

\* the region lists: at most r regions with at most w words in all
RECURSIVE RegionLists(_, _)
RegionLists(r, w) ==
    IF r = 0 THEN {<<>>}
    ELSE {<<>>} \cup
         UNION {{<<text>> \o rest : text \in [1..k -> Words],
                                    rest \in RegionLists(r - 1, w - k)}
                : k \in 0..w}

\* the values of enable_optional: None (read as []), the optional names, and
\* "person_name", the name run_pipeline passes when name detection is on
EnableLists ==
    {<<>>, <<"url">>, <<"date">>, <<"url", "date">>, <<"date", "url">>,
     <<"person_name">>, <<"person_name", "url">>}

DetInit ==
    /\ SelIdle
    /\ ResIdle
    /\ RedIdle
    /\ LuhnIdle
    /\ PrevIdle
    /\ JobIdle
    /\ NamesIdle
    /\ ScoreIdle
    /\ PdfIdle
    /\ det_regions \in UNION {RegionLists(r, MaxWords) : r \in RegionCounts}
    /\ enable_optional \in EnableLists
    /\ det_pc = "called"
    /\ det_result = <<>>

DetectReturn ==
    /\ UNCHANGED notDet
    /\ det_pc = "called"
    /\ det_result' = detect_pii(det_regions, enable_optional)
    /\ det_pc' = "returned"
    /\ UNCHANGED <<det_regions, enable_optional>>

DetNext == DetectReturn

SpecDetect == DetInit /\ [][DetNext]_vars

----------------------------------------------------------------------------
(* The job: process_video, run_pipeline, update_redactions, generate_pdf *)
(* and generate_final_pdf (main.py)                                      *)

\* REDACTION_MODE, the default of the environment
REDACTION_MODE == "blur"

\* the matches a scan finds on a key frame: none, or one
PiiLists == {<<>>, <<1>>}

FrameIds == 1..MaxKeyFrames

\* redaction_decisions of a PUT /redactions: a dict from frame ids to decision
\* lists.  The dicts of the model give every frame the same record: no
\* record, or "keep match 0".
JobRecords == {NoRecord, Record(<<[index |-> 0, redact |-> "false"]>>)}

DecisionDicts == {[f \in FrameIds |-> rec] : rec \in JobRecords}

\* job.get("redaction_decisions", {}) of a job no PUT has reached
NoDecisions == [f \in FrameIds |-> NoRecord]

\* the "mode" of the request body: absent, or a mode that is none of blur,
\* black and pixelate
SubmittedModes == {"absent", "other"}

\* redaction_data.get("mode", REDACTION_MODE)
ModeOf(submitted) == IF submitted = "absent" THEN REDACTION_MODE ELSE submitted

\* job.get("redaction_mode", REDACTION_MODE)
StoredModeOf(field) == IF field = "unset" THEN REDACTION_MODE ELSE field

\* what apply_redactions writes for a frame with matches: a redacted image
\* for blur, black and pixelate; for any other mode no branch of the if/elif
\* chain runs and the image is saved as it was opened
ApplyOutcome(mode) ==
    IF mode \in {"blur", "black", "pixelate"} THEN "redacted" ELSE "unchanged"

\* faulty variant: generation starts whatever the status is
ReadyForPdfAlways(s) == TRUE

\* line 337: job.get("status") != "ready_for_review" ends the task
ReadyForPdf(s) == s = "ready_for_review"

\* faulty variant: the loop reads the job's field at every frame
InUseLive(local, field) == field

\* lines 345-346 bind redaction_decisions and redaction_mode once; the loop
\* reads these locals, not the job's fields
InUse(local, field) == local

\* faulty variant: the frames scanned before the failure keep their matches
DegradedKeepScanned(n, done) ==
    [k \in 1..n |-> IF k <= Len(done) THEN done[k] ELSE <<>>]

\* lines 304-305: after a failure every key frame gets an empty match list
Degraded(n, done) == [k \in 1..n |-> <<>>]

\* no task is running on the event loop: run_pipeline and generate_final_pdf
\* have no await, so a request handler or another task runs only between tasks
LoopFree == task_pc = "idle"

\* no generation has run on the key frames of the job: generate_final_pdf's
\* locals do not exist, and the histories of the generation are empty
NoGeneration ==
    /\ gen_decisions = NoDecisions
    /\ gen_mode = "none"
    /\ gen_frames = <<>>
    /\ gen_pos = 0
    /\ redacted_frames = <<>>
    /\ used = <<>>
    /\ at_start = [decisions |-> NoDecisions, mode |-> "none"]
    /\ failed_frame = 0

SetStatus(s) ==
    /\ status' = s
    /\ status_log' = Append(status_log, s)

JobInit ==
    /\ SelIdle
    /\ ResIdle
    /\ RedIdle
    /\ LuhnIdle
    /\ DetIdle
    /\ PrevIdle
    /\ NamesIdle
    /\ ScoreIdle
    /\ PdfIdle
    /\ status = "uploaded"
    /\ status_log = <<"uploaded">>
    /\ pending = [pipeline |-> 0, generate |-> 0]
    /\ task_pc = "idle"
    /\ requests = 0
    /\ key_frame_count = 0
    /\ scanned = <<>>
    /\ key_frame_data = <<>>
    /\ pipe_fault = "none"
    /\ pipe_end = "none"
    /\ stored_decisions = NoDecisions
    /\ stored_mode = "unset"
    /\ NoGeneration

\* POST /process/{job_id}: ffmpeg is there
ProcessVideo ==
    /\ UNCHANGED notJob
    /\ LoopFree
    /\ requests < MaxRequests
    /\ requests' = requests + 1
    /\ pending' = [pending EXCEPT !.pipeline = @ + 1]
    /\ SetStatus("processing")
    /\ UNCHANGED <<task_pc, pipeVars, reviewVars, genVars>>

\* POST /process/{job_id}: check_ffmpeg fails
ProcessVideoNoFfmpeg ==
    /\ UNCHANGED notJob
    /\ LoopFree
    /\ requests < MaxRequests
    /\ requests' = requests + 1
    /\ SetStatus("error")
    /\ UNCHANGED <<pending, task_pc, pipeVars, reviewVars, genVars>>

\* PUT /redactions/{job_id}.  The handler runs between tasks; the model lets
\* it in between any two frames of a running generation as well, so that it
\* does not rely on the event loop being held by generate_final_pdf.
UpdateRedactions ==
    /\ UNCHANGED notJob
    /\ LoopFree \/ task_pc = "frames"
    /\ requests < MaxRequests
    /\ requests' = requests + 1
    /\ \E decisions \in DecisionDicts, mode \in SubmittedModes :
          /\ stored_decisions' = decisions
          /\ stored_mode' = ModeOf(mode)
    /\ UNCHANGED <<status, status_log, pending, task_pc, pipeVars, genVars>>

\* POST /generate/{job_id}
GeneratePdfRequest ==
    /\ UNCHANGED notJob
    /\ LoopFree
    /\ requests < MaxRequests
    /\ requests' = requests + 1
    /\ pending' = [pending EXCEPT !.generate = @ + 1]
    /\ UNCHANGED <<status, status_log, task_pc, pipeVars, reviewVars, genVars>>

\* run_pipeline starts: jobs[job_id]["status"] = "extracting_frames"; what
\* the model remembers of an earlier generation is dropped
PipelineStart ==
    /\ UNCHANGED notJob
    /\ LoopFree
    /\ pending.pipeline > 0
    /\ pending' = [pending EXCEPT !.pipeline = @ - 1]
    /\ SetStatus("extracting_frames")
    /\ task_pc' = "extract"
    /\ key_frame_count' = 0
    /\ scanned' = <<>>
    /\ pipe_fault' = "none"
    /\ pipe_end' = "none"
    /\ gen_decisions' = NoDecisions
    /\ gen_mode' = "none"
    /\ gen_frames' = <<>>
    /\ gen_pos' = 0
    /\ redacted_frames' = <<>>
    /\ used' = <<>>
    /\ at_start' = [decisions |-> NoDecisions, mode |-> "none"]
    /\ failed_frame' = 0
    /\ UNCHANGED <<requests, key_frame_data, reviewVars>>

\* extract_frames returned
ExtractFrames ==
    /\ UNCHANGED notJob
    /\ task_pc = "extract"
    /\ SetStatus("selecting_key_frames")
    /\ task_pc' = "select"
    /\ UNCHANGED <<pending, requests, pipeVars, reviewVars, genVars>>

\* select_key_frames returned n key frames; the scan starts
SelectKeyFrames ==
    /\ UNCHANGED notJob
    /\ task_pc = "select"
    /\ \E n \in 0..MaxKeyFrames : key_frame_count' = n
    /\ scanned' = <<>>
    /\ SetStatus("detecting_pii")
    /\ task_pc' = "scan"
    /\ UNCHANGED <<pending, requests, key_frame_data, pipe_fault, pipe_end,
                   reviewVars, genVars>>

\* one iteration of the loop over key_frame_paths: OCR, detection and preview
\* succeeded and the frame's matches were appended to key_frame_data
ScanFrame ==
    /\ UNCHANGED notJob
    /\ task_pc = "scan"
    /\ Len(scanned) < key_frame_count
    /\ \E pii \in PiiLists : scanned' = Append(scanned, pii)
    /\ UNCHANGED <<status, status_log, pending, task_pc, requests,
                   key_frame_count, key_frame_data, pipe_fault, pipe_end,
                   reviewVars, genVars>>

\* something in the iteration raised: the inner except stores an empty match
\* list for every key frame, and the pipeline goes on to the analysis
ScanRaises ==
    /\ UNCHANGED notJob
    /\ task_pc = "scan"
    /\ Len(scanned) < key_frame_count
    /\ key_frame_data' = Degraded(key_frame_count, scanned)
    /\ pipe_fault' = "detecting_pii"
    /\ SetStatus("analyzing")
    /\ task_pc' = "analyze"
    /\ UNCHANGED <<pending, requests, key_frame_count, scanned, pipe_end,
                   reviewVars, genVars>>

\* the loop ended: jobs[job_id]["key_frame_data"] = key_frame_data
ScanDone ==
    /\ UNCHANGED notJob
    /\ task_pc = "scan"
    /\ Len(scanned) = key_frame_count
    /\ key_frame_data' = scanned
    /\ SetStatus("analyzing")
    /\ task_pc' = "analyze"
    /\ UNCHANGED <<pending, requests, key_frame_count, scanned, pipe_fault,
                   pipe_end, reviewVars, genVars>>

\* analyze_frames_v2 returned: the job is ready for review
Analyze ==
    /\ UNCHANGED notJob
    /\ task_pc = "analyze"
    /\ SetStatus("ready_for_review")
    /\ pipe_end' = "ready_for_review"
    /\ task_pc' = "idle"
    /\ UNCHANGED <<pending, requests, key_frame_count, scanned, key_frame_data,
                   pipe_fault, reviewVars, genVars>>

\* extract_frames, select_key_frames or analyze_frames_v2 raised: the outer
\* except sets the status to error
PipelineRaises ==
    /\ UNCHANGED notJob
    /\ task_pc \in {"extract", "select", "analyze"}
    /\ SetStatus("error")
    /\ pipe_end' = "error"
    /\ pipe_fault' = IF pipe_fault = "none" THEN task_pc ELSE "both"
    /\ task_pc' = "idle"
    /\ UNCHANGED <<pending, requests, key_frame_count, scanned, key_frame_data,
                   reviewVars, genVars>>

\* generate_final_pdf on a job that is not ready for review
FinalPdfNotReady ==
    /\ UNCHANGED notJob
    /\ LoopFree
    /\ pending.generate > 0
    /\ ~ReadyForPdf(status)
    /\ pending' = [pending EXCEPT !.generate = @ - 1]
    /\ SetStatus("error")
    /\ UNCHANGED <<task_pc, requests, pipeVars, reviewVars, genVars>>

\* generate_final_pdf on a ready job: status generating_pdf, and the locals
\* redaction_decisions, redaction_mode and key_frame_data are bound
FinalPdfStart ==
    /\ UNCHANGED notJob
    /\ LoopFree
    /\ pending.generate > 0
    /\ ReadyForPdf(status)
    /\ pending' = [pending EXCEPT !.generate = @ - 1]
    /\ SetStatus("generating_pdf")
    /\ gen_decisions' = stored_decisions
    /\ gen_mode' = StoredModeOf(stored_mode)
    /\ gen_frames' = key_frame_data
    /\ gen_pos' = 1
    /\ redacted_frames' = <<>>
    /\ used' = <<>>
    /\ at_start' = [decisions |-> stored_decisions,
                    mode |-> StoredModeOf(stored_mode)]
    /\ failed_frame' = 0
    /\ task_pc' = "frames"
    /\ UNCHANGED <<requests, pipeVars, reviewVars>>

\* the decisions and the mode the iteration for frame i works with
DecisionsAt(i) == InUse(gen_decisions, stored_decisions)[i]
ModeAt == InUse(gen_mode, StoredModeOf(stored_mode))

\* the entry of the history for the iteration: what it worked with, and what
\* the job's fields held at that time
UsedAt(i) ==
    [decisions |-> DecisionsAt(i), mode |-> ModeAt,
     field_decisions |-> stored_decisions[i],
     field_mode |-> StoredModeOf(stored_mode)]

\* one iteration of the loop over key_frame_data: the frame's matches are
\* resolved; apply_redactions, when called, returned
FinalPdfFrame ==
    /\ UNCHANGED notJob
    /\ task_pc = "frames"
    /\ gen_pos <= Len(gen_frames)
    /\ LET r == Resolve(gen_frames[gen_pos], DecisionsAt(gen_pos))
       IN /\ ~r.raised
          /\ redacted_frames' =
                Append(redacted_frames,
                       IF r.list # <<>> THEN ApplyOutcome(ModeAt) ELSE "original")
    /\ used' = Append(used, UsedAt(gen_pos))
    /\ gen_pos' = gen_pos + 1
    /\ UNCHANGED <<status, status_log, pending, task_pc, requests, pipeVars,
                   reviewVars, gen_decisions, gen_mode, gen_frames, at_start,
                   failed_frame>>

\* the iteration raised: the resolution (IndexError), or apply_redactions on
\* a frame with matches to redact (it logs and raises again); the outer
\* except sets the status to error and the loop is left
FinalPdfFrameRaises ==
    /\ UNCHANGED notJob
    /\ task_pc = "frames"
    /\ gen_pos <= Len(gen_frames)
    /\ LET r == Resolve(gen_frames[gen_pos], DecisionsAt(gen_pos))
       IN r.raised \/ r.list # <<>>
    /\ used' = Append(used, UsedAt(gen_pos))
    /\ failed_frame' = gen_pos
    /\ SetStatus("error")
    /\ task_pc' = "idle"
    /\ UNCHANGED <<pending, requests, pipeVars, reviewVars, gen_decisions,
                   gen_mode, gen_frames, gen_pos, redacted_frames, at_start>>

\* the loop ended and generate_pdf_v2 returned: the job is complete
FinalPdfWrite ==
    /\ UNCHANGED notJob
    /\ task_pc = "frames"
    /\ gen_pos > Len(gen_frames)
    /\ SetStatus("complete")
    /\ task_pc' = "idle"
    /\ UNCHANGED <<pending, requests, pipeVars, reviewVars, genVars>>

\* generate_pdf_v2 or the cleanup raised
FinalPdfWriteRaises ==
    /\ UNCHANGED notJob
    /\ task_pc = "frames"
    /\ gen_pos > Len(gen_frames)
    /\ SetStatus("error")
    /\ task_pc' = "idle"
    /\ UNCHANGED <<pending, requests, pipeVars, reviewVars, genVars>>

JobNext ==
    \/ ProcessVideo \/ ProcessVideoNoFfmpeg \/ UpdateRedactions
    \/ GeneratePdfRequest
    \/ PipelineStart \/ ExtractFrames \/ SelectKeyFrames
    \/ ScanFrame \/ ScanRaises \/ ScanDone \/ Analyze \/ PipelineRaises
    \/ FinalPdfNotReady \/ FinalPdfStart \/ FinalPdfFrame
    \/ FinalPdfFrameRaises \/ FinalPdfWrite \/ FinalPdfWriteRaises

SpecJob == JobInit /\ [][JobNext]_vars

----------------------------------------------------------------------------
(* The PII stage of run_pipeline for one frame, and detect_names_ner *)

\* enable_optional as run_pipeline builds it
PipelineOptional(enabled) == IF enabled THEN <<"person_name">> ELSE <<>>

\* what nlp(region.text) does on one region once the model is loaded: it
\* raises, or it returns entities; the model has it label at most one word of
\* the region PERSON
NerOutcome(raised, persons) == [raised |-> raised, persons |-> persons]

NerOutcomes(text) ==
    {NerOutcome(TRUE, <<>>), NerOutcome(FALSE, <<>>)}
        \cup {NerOutcome(FALSE, <<text[k]>>) : k \in 1..Len(text)}

NerRuns(regions) ==
    {run \in [1..Len(regions) ->
                UNION {NerOutcomes(regions[r]) : r \in 1..Len(regions)}] :
        \A r \in 1..Len(regions) : run[r] \in NerOutcomes(regions[r])}

\* the loop over regions of detect_names_ner, from region r on: a region
\* whose analysis raises is passed over
RECURSIVE NamesFrom(_, _, _)
NamesFrom(r, regions, run) ==
    IF r > Len(regions) THEN <<>>
    ELSE (IF run[r].raised THEN <<>>
          ELSE [k \in 1..Len(run[r].persons) |->
                  [region |-> r, pii_type |-> "person_name",
                   confidence |-> "medium", matched_text |-> run[r].persons[k]]])
         \o NamesFrom(r + 1, regions, run)

\* detect_names_ner: [] when spaCy or its model cannot be loaded
detect_names_ner(regions, loads, run) ==
    IF ~loads THEN <<>> ELSE NamesFrom(1, regions, run)

\* faulty variant: the name matches take the place of the pattern matches
ExtendedReplaces(list, more) == more

\* list.extend
Extended(list, more) == list \o more

NamesInit ==
    /\ SelIdle
    /\ ResIdle
    /\ RedIdle
    /\ LuhnIdle
    /\ DetIdle
    /\ PrevIdle
    /\ JobIdle
    /\ ScoreIdle
    /\ PdfIdle
    /\ ner_regions \in UNION {RegionLists(r, MaxWords) : r \in RegionCounts}
    /\ name_detection \in BOOLEAN
    /\ spacy_loads \in BOOLEAN
    /\ ner_pc = "scan"
    /\ pii_matches = <<>>
    /\ name_matches = <<>>

\* ENABLE_NAME_DETECTION is off: detect_pii alone
ScanNamesOff ==
    /\ UNCHANGED notNames
    /\ ner_pc = "scan"
    /\ ~name_detection
    /\ pii_matches' = detect_pii(ner_regions, PipelineOptional(name_detection))
    /\ ner_pc' = "done"
    /\ UNCHANGED <<ner_regions, name_detection, spacy_loads, name_matches>>

\* ENABLE_NAME_DETECTION is on and spaCy or its model cannot be loaded
ScanNamesUnavailable ==
    /\ UNCHANGED notNames
    /\ ner_pc = "scan"
    /\ name_detection
    /\ ~spacy_loads
    /\ \E run \in NerRuns(ner_regions) :
        LET names == detect_names_ner(ner_regions, spacy_loads, run)
        IN /\ name_matches' = names
           /\ pii_matches' =
                Extended(detect_pii(ner_regions, PipelineOptional(name_detection)), names)
    /\ ner_pc' = "done"
    /\ UNCHANGED <<ner_regions, name_detection, spacy_loads>>

\* ENABLE_NAME_DETECTION is on and the model is loaded
ScanNamesAvailable ==
    /\ UNCHANGED notNames
    /\ ner_pc = "scan"
    /\ name_detection
    /\ spacy_loads
    /\ \E run \in NerRuns(ner_regions) :
        LET names == detect_names_ner(ner_regions, spacy_loads, run)
        IN /\ name_matches' = names
           /\ pii_matches' =
                Extended(detect_pii(ner_regions, PipelineOptional(name_detection)), names)
    /\ ner_pc' = "done"
    /\ UNCHANGED <<ner_regions, name_detection, spacy_loads>>

NamesNext == ScanNamesOff \/ ScanNamesUnavailable \/ ScanNamesAvailable

SpecNames == NamesInit /\ [][NamesNext]_vars

----------------------------------------------------------------------------
(* select_key_frames: the scoring loops *)

\* The 320 x 180 grayscale array of a frame is a sequence of pixels, one per
\* position in ScorePixels; None is the empty sequence.  A mean over the
\* pixels is kept as the sum over the pixels, so that it stays an integer.
ScorePixels == {1, 2}
PixelLevels == {10, 12}
NoImage == <<>>

GrayImages == [ScorePixels -> PixelLevels]

PixelCount == Cardinality(ScorePixels)

\* a frame on disk: no file, a file PIL cannot read, or a readable image
ScoredFrames ==
    {[file |-> "missing", pixels |-> NoImage], [file |-> "unreadable", pixels |-> NoImage]}
        \cup {[file |-> "ok", pixels |-> g] : g \in GrayImages}

\* np.abs(a - b) on uint8 operands: the subtraction wraps modulo 256 and the
\* result, unsigned, is its own absolute value
Uint8AbsDiff(a, b) == (a - b + 256) % 256

\* PixelCount * np.mean(np.abs(a - b))
RECURSIVE AbsDiffSum(_, _, _)
AbsDiffSum(a, b, p) ==
    IF p > Len(a) THEN 0 ELSE Uint8AbsDiff(a[p], b[p]) + AbsDiffSum(a, b, p + 1)

MeanAbsDiff(a, b) == AbsDiffSum(a, b, 1)

stability_window == 3

\* the stability scores are kept times StabilityScale, which makes the mean
\* over 1, 2 or 3 future differences an integer
StabilityScale == 6 * PixelCount

\* the positions i + j, j in 1..stability_window, whose image is not None
\* (i is the 1-based position of the frame)
FutureFrames(imgs, i) ==
    {k \in (i + 1)..(i + stability_window) : imgs[k] # NoImage}

RECURSIVE FutureDiffSum(_, _, _)
FutureDiffSum(imgs, i, S) ==
    IF S = {} THEN 0
    ELSE LET k == SetMin(S)
         IN MeanAbsDiff(imgs[i], imgs[k]) + FutureDiffSum(imgs, i, S \ {k})

\* faulty variant: the tail bonus is given before the image is looked at
StabilityScoreTailFirst(imgs, i) ==
    IF ~((i - 1) + stability_window < Len(imgs)) THEN 30 * StabilityScale
    ELSE IF imgs[i] = NoImage THEN 0
    ELSE LET future == FutureFrames(imgs, i)
         IN IF future = {} THEN 0
            ELSE Max2(0, 50 * StabilityScale
                           - (60 \div Cardinality(future)) * FutureDiffSum(imgs, i, future))

\* StabilityScale times the stability score of the frame at position i:
\* 0 for None, max(0, 50 - avg_future_diff * 10) when stability_window frames
\* follow (0 when none of them has an image), and 30 for the last frames
StabilityScore(imgs, i) ==
    IF imgs[i] = NoImage THEN 0
    ELSE IF (i - 1) + stability_window < Len(imgs)
    THEN LET future == FutureFrames(imgs, i)
         IN IF future = {} THEN 0
            ELSE Max2(0, 50 * StabilityScale
                           - (60 \div Cardinality(future)) * FutureDiffSum(imgs, i, future))
    ELSE 30 * StabilityScale

ScoreInit ==
    /\ SelIdle
    /\ ResIdle
    /\ RedIdle
    /\ LuhnIdle
    /\ DetIdle
    /\ PrevIdle
    /\ JobIdle
    /\ NamesIdle
    /\ PdfIdle
    /\ sc_frames \in UNION {[1..n -> ScoredFrames] : n \in 2..MaxScored}
    /\ sc_pc = "differences"
    /\ sc_pos = 1
    /\ images = <<>>
    /\ prev_img = NoImage
    /\ differences = <<>>
    /\ stability_scores = <<>>

\* first loop, a path that does not exist
DiffMissing ==
    /\ UNCHANGED notScore
    /\ sc_pc = "differences"
    /\ sc_pos <= Len(sc_frames)
    /\ sc_frames[sc_pos].file = "missing"
    /\ differences' = Append(differences, 0)
    /\ images' = Append(images, NoImage)
    /\ sc_pos' = sc_pos + 1
    /\ UNCHANGED <<sc_frames, sc_pc, prev_img, stability_scores>>

\* first loop, an image that cannot be opened: the except branch
DiffUnreadable ==
    /\ UNCHANGED notScore
    /\ sc_pc = "differences"
    /\ sc_pos <= Len(sc_frames)
    /\ sc_frames[sc_pos].file = "unreadable"
    /\ differences' = Append(differences, 0)
    /\ images' = Append(images, NoImage)
    /\ sc_pos' = sc_pos + 1
    /\ UNCHANGED <<sc_frames, sc_pc, prev_img, stability_scores>>

\* first loop, a readable image
DiffScored ==
    /\ UNCHANGED notScore
    /\ sc_pc = "differences"
    /\ sc_pos <= Len(sc_frames)
    /\ sc_frames[sc_pos].file = "ok"
    /\ LET img_array == sc_frames[sc_pos].pixels
       IN /\ images' = Append(images, img_array)
          /\ differences' =
                Append(differences,
                       IF prev_img # NoImage THEN MeanAbsDiff(img_array, prev_img) ELSE 0)
          /\ prev_img' = img_array
    /\ sc_pos' = sc_pos + 1
    /\ UNCHANGED <<sc_frames, sc_pc, stability_scores>>

\* the first loop is over
DifferencesDone ==
    /\ UNCHANGED notScore
    /\ sc_pc = "differences"
    /\ sc_pos > Len(sc_frames)
    /\ sc_pc' = "stability"
    /\ sc_pos' = 1
    /\ UNCHANGED <<sc_frames, images, prev_img, differences, stability_scores>>

\* one iteration of the second loop
StabilityStep ==
    /\ UNCHANGED notScore
    /\ sc_pc = "stability"
    /\ sc_pos <= Len(sc_frames)
    /\ stability_scores' = Append(stability_scores, StabilityScore(images, sc_pos))
    /\ sc_pos' = sc_pos + 1
    /\ UNCHANGED <<sc_frames, sc_pc, images, prev_img, differences>>

\* the second loop is over: the scores go on to be combined
StabilityDone ==
    /\ UNCHANGED notScore
    /\ sc_pc = "stability"
    /\ sc_pos > Len(sc_frames)
    /\ sc_pc' = "scored"
    /\ UNCHANGED <<sc_frames, sc_pos, images, prev_img, differences, stability_scores>>

ScoreNext ==
    \/ DiffMissing \/ DiffUnreadable \/ DiffScored \/ DifferencesDone
    \/ StabilityStep \/ StabilityDone

SpecScore == ScoreInit /\ [][ScoreNext]_vars

----------------------------------------------------------------------------
(* generate_pdf_v2: the loop over the lines *)

\* int() of the digits a marker holds
RECURSIVE DecimalValue(_)
DecimalValue(digits) ==
    IF digits = <<>> THEN 0
    ELSE 10 * DecimalValue(SubSeq(digits, 1, Len(digits) - 1)) + IntOf(digits[Len(digits)])

\* the digits of the markers of the model: [FRAME:0], [FRAME:1], [FRAME:01],
\* [FRAME:2], [FRAME:3]
MarkerDigits == {<<"0">>, <<"1">>, <<"0", "1">>, <<"2">>, <<"3">>}

\* a stripped line: empty, one that re.match finds a marker at the start of,
\* a title ("# ...") or regular text
PdfLine(kind, digits) == [kind |-> kind, digits |-> digits]

PdfLines ==
    {PdfLine("blank", <<>>), PdfLine("title", <<>>), PdfLine("body", <<>>)}
        \cup {PdfLine("marker", d) : d \in MarkerDigits}

\* redacted_frames: per frame number "absent" when it is no key, and else
\* what is at the path it maps to: no file, a file that cannot be embedded, or
\* an image
FrameKeys == {1, 2}
FileStates == {"absent", "missing", "unreadable", "ok"}

\* the flowables of the story
Spacer(height) == [el |-> "Spacer", style |-> "", num |-> height]
Paragraph(style) == [el |-> "Paragraph", style |-> style, num |-> 0]
Image(frame_num) == [el |-> "Image", style |-> "", num |-> frame_num]

\* what becomes of a marker line
MarkerOutcome(line, frames) ==
    LET frame_num == DecimalValue(line.digits)
    IN IF frame_num <= 0 THEN "invalid"
       ELSE IF ~(frame_num \in DOMAIN frames /\ frames[frame_num] # "absent")
            THEN "not_found"
       ELSE IF frames[frame_num] = "missing" THEN "missing"
       ELSE IF frames[frame_num] = "unreadable" THEN "unreadable"
       ELSE "embedded"

TextStyle(line) == IF line.kind = "title" THEN "DocTitle" ELSE "BodyText"

\* faulty variant: a marker line goes on to be rendered as text (no continue)
RenderLineNoContinue(line, frames) ==
    IF line.kind = "blank" THEN <<Spacer(6)>>
    ELSE IF line.kind = "marker"
    THEN (IF MarkerOutcome(line, frames) = "embedded"
          THEN <<Image(DecimalValue(line.digits)), Spacer(10)>>
          ELSE <<>>) \o <<Paragraph(TextStyle(line))>>
    ELSE <<Paragraph(TextStyle(line))>>

\* what one iteration of the loop appends to story
RenderLine(line, frames) ==
    IF line.kind = "blank" THEN <<Spacer(6)>>
    ELSE IF line.kind = "marker"
    THEN IF MarkerOutcome(line, frames) = "embedded"
         THEN <<Image(DecimalValue(line.digits)), Spacer(10)>>
         ELSE <<>>
    ELSE <<Paragraph(TextStyle(line))>>

PdfInit ==
    /\ SelIdle
    /\ ResIdle
    /\ RedIdle
    /\ LuhnIdle
    /\ DetIdle
    /\ PrevIdle
    /\ JobIdle
    /\ NamesIdle
    /\ ScoreIdle
    /\ pdf_lines \in UNION {[1..n -> PdfLines] : n \in 0..MaxLines}
    /\ pdf_frames \in [FrameKeys -> FileStates]
    /\ pdf_pc = "lines"
    /\ pdf_pos = 1
    /\ story = <<>>

PdfStep(kinds, outcomes) ==
    /\ UNCHANGED notPdf
    /\ pdf_pc = "lines"
    /\ pdf_pos <= Len(pdf_lines)
    /\ pdf_lines[pdf_pos].kind \in kinds
    /\ pdf_lines[pdf_pos].kind = "marker"
          => MarkerOutcome(pdf_lines[pdf_pos], pdf_frames) \in outcomes
    /\ story' = story \o RenderLine(pdf_lines[pdf_pos], pdf_frames)
    /\ pdf_pos' = pdf_pos + 1
    /\ UNCHANGED <<pdf_lines, pdf_frames, pdf_pc>>

\* an empty line
BlankLine == PdfStep({"blank"}, {})

\* a marker that is ignored: its number is not positive, it is no key of
\* redacted_frames, or its image file does not exist
MarkerSkipped == PdfStep({"marker"}, {"invalid", "not_found", "missing"})

\* a marker whose image cannot be embedded: the except branch
MarkerUnreadable == PdfStep({"marker"}, {"unreadable"})

\* a marker whose image is embedded
MarkerEmbedded == PdfStep({"marker"}, {"embedded"})

\* a line of text
TextLine == PdfStep({"title", "body"}, {})

\* doc.build(story)
Build ==
    /\ UNCHANGED notPdf
    /\ pdf_pc = "lines"
    /\ pdf_pos > Len(pdf_lines)
    /\ pdf_pc' = "built"
    /\ UNCHANGED <<pdf_lines, pdf_frames, pdf_pos, story>>

PdfNext ==
    \/ BlankLine \/ MarkerSkipped \/ MarkerUnreadable \/ MarkerEmbedded
    \/ TextLine \/ Build

SpecPdf == PdfInit /\ [][PdfNext]_vars

----------------------------------------------------------------------------
(* Key-frame selection: properties *)

Returned == sel_pc = "done"
OverBudget == N > max_embed

\* the original index of a returned path (the paths of a frame list are distinct)
IndexOfPath(p) == CHOOSE i \in 0..(N - 1) : frame_paths[i + 1] = p

ResultIndices == [k \in 1..Len(sel_result) |-> IndexOfPath(sel_result[k])]

\* the passes admitted at least one frame beyond the anchors
PassesAdmitted == Len(admitted) > Cardinality(Anchors(N))

\* C1: for every N > K, select_key_frames returns exactly K frames (never
\* more than K), whatever the scores are.
C1_ExactlyBudget ==
    (Returned /\ OverBudget) => Len(sel_result) = max_embed

\* C2: for every N > K, the returned frames include the frame at original
\* index 0 and the frame at original index N-1.
C2_FirstAndLastIncluded ==
    (Returned /\ OverBudget) =>
        /\ frame_paths[1] \in SeqRange(sel_result)
        /\ frame_paths[N] \in SeqRange(sel_result)

C2_Witness ==
    /\ Returned /\ OverBudget /\ PassesAdmitted
    /\ Len(sel_result) = max_embed

\* C3: the returned frames are in strictly increasing original index (no
\* index twice), whatever the order in which they were admitted.
C3_StrictlyIncreasing ==
    Returned =>
        \A j, k \in 1..Len(sel_result) : j < k => ResultIndices[j] < ResultIndices[k]

\* a frame was admitted after a frame of higher index, by a pass
C3_Witness ==
    /\ Returned /\ OverBudget /\ PassesAdmitted
    /\ \E j, k \in 1..Len(admitted) : j < k /\ admitted[j] > admitted[k]

\* C4: for N <= K, select_key_frames returns all N input frames in their
\* input order, and nothing was scored, anchored, boosted or sorted.
C4_IdentityWithinBudget ==
    (Returned /\ ~OverBudget) =>
        /\ sel_result = frame_paths
        /\ combined_scores = <<>>
        /\ selected_indices = {}
        /\ boosted_scores = <<>>

\* a list of several frames whose paths do not ascend, returned as it is
C4_Witness ==
    /\ Returned /\ ~OverBudget
    /\ N >= 2 /\ N = max_embed
    /\ frame_paths[1] > frame_paths[2]

\* the frames in the one order "descending boosted score, ties by ascending
\* original index"
BoostedOf(scores, i) == BoostedScore(i, scores[i + 1], Len(scores))

Before(scores, i, j) ==
    \/ BoostedOf(scores, i) > BoostedOf(scores, j)
    \/ BoostedOf(scores, i) = BoostedOf(scores, j) /\ i < j

RECURSIVE TieBrokenOrder(_, _)
TieBrokenOrder(scores, S) ==
    IF S = {} THEN <<>>
    ELSE LET first == CHOOSE i \in S : \A j \in S \ {i} : Before(scores, i, j)
         IN <<first>> \o TieBrokenOrder(scores, S \ {first})

\* the two passes as a function of the walk order, the frame count and the budget
RECURSIVE DistributionPass(_, _, _, _, _)
DistributionPass(order, sel, counts, n, k) ==
    IF order = <<>> \/ Cardinality(sel) >= k THEN sel
    ELSE LET idx == Head(order)
             seg == SegmentOf(idx, n, k)
         IN IF counts[seg + 1] < FramesPerSegment(k) \/ IsPriorityFrame(idx, n)
            THEN DistributionPass(Tail(order), sel \cup {idx},
                                  [counts EXCEPT ![seg + 1] = @ + 1], n, k)
            ELSE DistributionPass(Tail(order), sel, counts, n, k)

RECURSIVE FillPass(_, _, _)
FillPass(order, sel, k) ==
    IF order = <<>> \/ Cardinality(sel) >= k THEN sel
    ELSE FillPass(Tail(order), sel \cup {Head(order)}, k)

SelectionOf(scores, k) ==
    LET n == Len(scores)
        order == TieBrokenOrder(scores, 0..(n - 1))
        zero == [s \in 1..NumSegments(k) |-> 0]
    IN FillPass(order, DistributionPass(order, Anchors(n), zero, n, k), k)

\* C5: selection is a function of the scores and maxEmbed: both passes walk
\* the frames by descending boosted score with equal scores in ascending
\* original index, and the selected set is the one that walk determines.
C5_TieBrokenDeterministic ==
    (Returned /\ OverBudget) =>
        /\ [k \in 1..Len(boosted_scores) |-> boosted_scores[k][1]]
              = TieBrokenOrder(combined_scores, 0..(N - 1))
        /\ selected_indices = SelectionOf(combined_scores, max_embed)

\* two frames of equal boosted score competed for the budget, and the one of
\* lower index was selected by a pass
C5_Witness ==
    /\ Returned /\ OverBudget
    /\ \E i \in selected_indices \ Anchors(N) : \E j \in (0..(N - 1)) \ selected_indices :
          /\ i < j
          /\ BoostedOf(combined_scores, i) = BoostedOf(combined_scores, j)
          /\ combined_scores[i + 1] > 0

----------------------------------------------------------------------------
(* Decision resolution: properties *)

\* generate_final_pdf has run its resolution for the frame
Generated == gen_outcome # "idle"

InRange(i, pii) == 0 <= i /\ i < Len(pii)

\* C6: a frame without a decision record has every detected match passed to
\* redaction.
C6_DefaultRedactAll ==
    (Generated /\ ~redaction_decisions.present) =>
        /\ gen_outcome = "resolved"
        /\ pii_to_redact = frame_pii

C6_Witness ==
    /\ Generated /\ ~redaction_decisions.present
    /\ Len(frame_pii) = 3
    /\ Len(pii_to_redact) = 3

\* the record without its entries of out-of-range index
InRangeOnly(record, pii) ==
    Record(SelectSeq(record.list, LAMBDA dec : InRange(dec.index, pii)))

\* C7: the entries whose index lies outside 0..len(matches)-1, too large or
\* negative, are ignored without raising: the frame resolves as it does with
\* those entries removed from the record.
C7_OutOfRangeIgnored ==
    (Generated /\ redaction_decisions.present) =>
        /\ gen_outcome = "resolved"
        /\ pii_to_redact = Resolve(frame_pii, InRangeOnly(redaction_decisions, frame_pii)).list

\* C8: with a decision record, the matches passed to redaction are exactly
\* the matches with an in-range entry that says redact (an entry without a
\* "redact" key counts as redact, as the code reads it).
C8_ExactlyRedactTrue ==
    (Generated /\ redaction_decisions.present) =>
        /\ gen_outcome = "resolved"
        /\ SeqRange(pii_to_redact) =
             {frame_pii[i + 1] : i \in {j \in 0..(Len(frame_pii) - 1) :
                 \E k \in 1..Len(redaction_decisions.list) :
                     /\ redaction_decisions.list[k].index = j
                     /\ DecRedact(redaction_decisions.list[k])}}

----------------------------------------------------------------------------
(* Redaction: properties *)

\* the padded box of the claim: the bbox grown by 5 on each side and cut to
\* the image
PaddedLeft(bbox) == IF bbox[1] - 5 < 0 THEN 0 ELSE bbox[1] - 5
PaddedTop(bbox) == IF bbox[2] - 5 < 0 THEN 0 ELSE bbox[2] - 5
PaddedRight(bbox) == IF bbox[3] + 5 > ImgWidth THEN ImgWidth ELSE bbox[3] + 5
PaddedBottom(bbox) == IF bbox[4] + 5 > ImgHeight THEN ImgHeight ELSE bbox[4] + 5

StrictlyInside(p, bbox) ==
    /\ PaddedLeft(bbox) < p[1] /\ p[1] < PaddedRight(bbox)
    /\ PaddedTop(bbox) < p[2] /\ p[2] < PaddedBottom(bbox)

StrictlyOutside(p, bbox) ==
    \/ p[1] < PaddedLeft(bbox) \/ p[1] > PaddedRight(bbox)
    \/ p[2] < PaddedTop(bbox) \/ p[2] > PaddedBottom(bbox)

BlackSaved == red_pc = "saved" /\ red_mode = "black"

----------------------------------------------------------------------------
(* Luhn validation: properties *)

StrippedDigits == SelectSeq(card_number, IsDigit)

\* the weighted digit sum of the claim: walking from the right, every second
\* digit is doubled, and reduced by 9 when the doubled value exceeds 9
RECURSIVE WeightedSum(_, _)
WeightedSum(ds, second) ==
    IF ds = <<>> THEN 0
    ELSE LET d == IntOf(ds[Len(ds)])
             w == IF ~second THEN d ELSE IF 2 * d > 9 THEN 2 * d - 9 ELSE 2 * d
         IN w + WeightedSum(SubSeq(ds, 1, Len(ds) - 1), ~second)

LuhnValid ==
    /\ Len(StrippedDigits) >= 13
    /\ Len(StrippedDigits) <= 19
    /\ WeightedSum(StrippedDigits, FALSE) % 10 = 0

\* C10: luhn_check accepts a string iff, after non-digits are stripped, it
\* has 13 to 19 digits and its weighted digit sum is divisible by 10.
C10_LuhnAcceptsIffValid ==
    luhn_pc = "returned" => (luhn_result <=> LuhnValid)

\* "4111 1111 1111 1111" is accepted
C10_Witness ==
    /\ luhn_pc = "returned"
    /\ luhn_result
    /\ card_number = Grouped(<<"4">> \o Run("1", 15), " ")

----------------------------------------------------------------------------
(* PII detection: properties *)

DetReturned == det_pc = "returned"

RegionIds == 1..Len(det_regions)
MatchIds == 1..Len(det_result)

\* the detectors the call is meant to apply: the mandatory ones and the
\* optional ones named in enable_optional
MandatoryNames ==
    {"email", "phone", "ssn", "credit_card", "ip_address", "user_path_unix",
     "user_path_windows", "aws_key", "api_key_openai", "api_key_github"}
OptionalNames == {"url", "date"}
EnabledNames == MandatoryNames \cup (OptionalNames \cap SeqRange(enable_optional))

\* the pattern of the detector matches somewhere in the text of region r
Finds(name, r) == re_finditer(name, det_regions[r]) # <<>>

\* the text the pattern of the detector matched first in region r
FirstMatched(name, r) == re_finditer(name, det_regions[r])[1].whole

HasMatch(r, name) ==
    \E k \in MatchIds : det_result[k].region = r /\ det_result[k].pii_type = name

\* the Luhn rule on a text, non-digits stripped
PassesLuhn(text) ==
    LET ds == SelectSeq(text, IsDigit)
    IN Len(ds) >= 13 /\ Len(ds) <= 19 /\ WeightedSum(ds, FALSE) % 10 = 0

\* C11: no credit_card match that detect_pii returns has a matched text that
\* fails the Luhn rule, and every other active detector whose pattern matches
\* in a region still has its match for that region returned.
C11_CardMatchesPassLuhn ==
    DetReturned =>
        /\ \A k \in MatchIds :
              det_result[k].pii_type = "credit_card"
                  => PassesLuhn(det_result[k].matched_text)
        /\ \A r \in RegionIds : \A name \in EnabledNames \ {"credit_card"} :
              Finds(name, r) => HasMatch(r, name)

\* a region whose card-shaped candidate fails the Luhn rule was dropped while
\* another detector's match on the same region was returned
C11_Witness ==
    /\ DetReturned
    /\ \E r \in RegionIds :
          /\ Finds("credit_card", r)
          /\ ~PassesLuhn(FirstMatched("credit_card", r))
          /\ ~HasMatch(r, "credit_card")
          /\ \E name \in EnabledNames \ {"credit_card"} : HasMatch(r, name)

\* C12: for every region and every active detector whose pattern matches the
\* region's text, the matched_text recorded is the whole first substring the
\* pattern matched, for phone and aws_key like for every other detector.
C12_WholeFirstMatch ==
    DetReturned =>
        \A k \in MatchIds :
            det_result[k].matched_text
                = FirstMatched(det_result[k].pii_type, det_result[k].region)

\* C13: a url or date match is returned only when that detector's name is in
\* enable_optional; every mandatory detector is applied to every region on
\* every call; no other name in enable_optional activates anything.
C13_OptionalOnlyWhenEnabled ==
    DetReturned =>
        /\ \A k \in MatchIds :
              det_result[k].pii_type \in OptionalNames
                  => det_result[k].pii_type \in SeqRange(enable_optional)
        /\ \A r \in RegionIds : \A name \in MandatoryNames :
              (/\ Finds(name, r)
               /\ name = "credit_card" => PassesLuhn(FirstMatched(name, r)))
                  => HasMatch(r, name)
        /\ \A k \in MatchIds :
              det_result[k].pii_type \in MandatoryNames \cup OptionalNames

\* one optional detector was enabled next to a name that is no detector; the
\* region holds a url and a date, and only the url came back
C13_Witness ==
    /\ DetReturned
    /\ enable_optional = <<"person_name", "url">>
    /\ \E r \in RegionIds :
          /\ Finds("url", r) /\ Finds("date", r)
          /\ HasMatch(r, "url") /\ ~HasMatch(r, "date")

----------------------------------------------------------------------------
(* Redaction boxes and preview: properties *)

BoxIds == 1..Len(red_boxes)

\* C19: for every match bbox and image size, the box apply_redactions
\* transforms, padded and then clamped, lies within the image:
\* 0 <= x1 <= x2 <= width and 0 <= y1 <= y2 <= height.
C19_BoxWithinImage ==
    \A k \in BoxIds :
        /\ 0 <= red_boxes[k][1] /\ red_boxes[k][1] <= red_boxes[k][3]
        /\ red_boxes[k][3] <= ImgWidth
        /\ 0 <= red_boxes[k][2] /\ red_boxes[k][2] <= red_boxes[k][4]
        /\ red_boxes[k][4] <= ImgHeight

\* a box whose padding was cut off at the left and the right edge, and one
\* whose padding was cut off at the top and the bottom edge, were transformed
C19_Witness ==
    /\ red_pc = "saved"
    /\ \E k \in BoxIds :
          /\ red_matches[k][1] - 5 < 0 /\ red_boxes[k][1] = 0
          /\ red_matches[k][3] + 5 > ImgWidth /\ red_boxes[k][3] = ImgWidth
    /\ \E k \in BoxIds :
          /\ red_matches[k][2] - 5 < 0 /\ red_boxes[k][2] = 0
          /\ red_matches[k][4] + 5 > ImgHeight /\ red_boxes[k][4] = ImgHeight

\* the box apply_redactions transforms for a match of the preview
RedactedBoxOf(bbox) ==
    <<PaddedLeft(bbox), PaddedTop(bbox), PaddedRight(bbox), PaddedBottom(bbox)>>

\* C20: generate_preview outlines, for each match, the same padded and
\* clamped box that apply_redactions would transform.
C20_PreviewOutlinesRedactedBox ==
    prev_pc = "saved" =>
        \A k \in 1..Len(prev_drawn) :
            prev_drawn[k].outline = RedactedBoxOf(prev_matches[k])

\* C14: a mode outside {blur, black, pixelate} is rejected as a caller error:
\* apply_redactions called with such a mode does not return an output image
\* (it saves and returns nothing for matches it left untransformed).
C14_InvalidModeRejected ==
    red_mode \notin {"blur", "black", "pixelate"} => red_pc # "saved"

----------------------------------------------------------------------------
(* The job: properties *)

GenerationOver == task_pc # "frames"

\* C15: during final generation over several key frames, a failure of
\* apply_redactions on one image is reported for that image alone: the
\* remaining key frames are still processed and the batch is not aborted.
C15_FailureReportedPerImage ==
    (failed_frame # 0 /\ GenerationOver) => Len(used) = Len(gen_frames)

PiiStageFailed == pipe_fault \in {"detecting_pii", "both"}

\* C16: if OCR, PII detection or preview rendering raises for any key frame
\* during detecting_pii, the job ends that stage with an empty match list for
\* every key frame, including the frames already scanned, and the pipeline
\* goes on to analyzing and ready_for_review instead of error (it ends in
\* error only if the analysis raises in turn).
C16_PiiFailureDegrades ==
    PiiStageFailed =>
        /\ Len(key_frame_data) = key_frame_count
        /\ \A f \in 1..Len(key_frame_data) : key_frame_data[f] = <<>>
        /\ task_pc = "analyze" => status = "analyzing"
        /\ pipe_end = "error" => pipe_fault = "both"
        /\ (pipe_end # "none" /\ pipe_fault # "both") => pipe_end = "ready_for_review"

\* the scan raised on a later frame after an earlier frame was scanned with a
\* match, and the run ended ready for review
C16_Witness ==
    /\ PiiStageFailed
    /\ pipe_end = "ready_for_review"
    /\ key_frame_count >= 2
    /\ \E k \in 1..Len(scanned) : scanned[k] # <<>>

PipelineStages ==
    <<"extracting_frames", "selecting_key_frames", "detecting_pii", "analyzing",
      "ready_for_review">>

\* C17: the stages are entered strictly in the order extraction, selection,
\* PII scan, narrative generation, review, redaction apply: every stage status
\* follows directly on the one before it, ready_for_review is entered only
\* after extracting_frames, selecting_key_frames, detecting_pii and analyzing
\* in that order, and generating_pdf only from ready_for_review.  (Stated of
\* the status entered last; the log only grows, so it holds of every entry.)
C17_StagesInOrder ==
    LET k == Len(status_log)
    IN  k > 0 =>
        /\ \A j \in 2..5 :
              status_log[k] = PipelineStages[j]
                  => k > 1 /\ status_log[k - 1] = PipelineStages[j - 1]
        /\ status_log[k] = "ready_for_review" => k > 4
        /\ status_log[k] = "generating_pdf"
              => k > 1 /\ status_log[k - 1] = "ready_for_review"
        /\ status_log[k] = "complete"
              => k > 1 /\ status_log[k - 1] = "generating_pdf"

\* a job went through every stage up to complete
C17_Witness ==
    /\ status = "complete"
    /\ \E k \in 1..Len(status_log) : status_log[k] = "analyzing"

\* C18: final generation reads the decisions and the mode once, as one
\* snapshot: an update_redactions handled after the resolution started changes
\* neither the decisions nor the mode used for any frame of the generation.
C18_SnapshotUsed ==
    \A k \in 1..Len(used) :
        /\ used[k].decisions = at_start.decisions[k]
        /\ used[k].mode = at_start.mode

\* an update changed the job's decisions and mode while a generation was
\* between two frames, and the next frame's matches were still redacted as
\* the snapshot says
C18_Witness ==
    /\ status = "complete"
    /\ \E k \in 1..Len(used) :
          /\ used[k].field_mode # used[k].mode
          /\ used[k].field_decisions # used[k].decisions
          /\ k > 1
          /\ used[k - 1].field_mode = used[k - 1].mode
          /\ gen_frames[k] # <<>>
          /\ redacted_frames[k] = "redacted"

----------------------------------------------------------------------------
(* Key-frame selection: anchors, segments and the budget *)

\* the frames the selection must hold whatever the scores: frame 0, the last
\* 5 frames, and the frames from floor(0.7 * n) on
MandatoryFrames(n) ==
    {i \in 0..(n - 1) : i = 0 \/ i >= n - 5 \/ 10 * i >= 7 * n - 9}

SelectedPaths == SeqRange(sel_result)

TimelineSegment(i) ==
    LET width == N \div NumSegments(max_embed)
    IN IF i \div width >= NumSegments(max_embed) THEN NumSegments(max_embed) - 1
       ELSE i \div width

\* C24: for every N > K, the final selection spans the whole timeline: each
\* of the min(5, K \div 3) equal-width segments holds at least one selected
\* frame.
C24_EverySegmentCovered ==
    (Returned /\ OverBudget) =>
        \A s \in 0..(NumSegments(max_embed) - 1) :
            \E i \in selected_indices : TimelineSegment(i) = s

\* C28: select_key_frames returns a selection without raising for every
\* budget K >= 1 and every N > K, the budgets 1 and 2 included.
C28_NeverRaises == sel_pc # "raised"

----------------------------------------------------------------------------
(* PII detection: one match per region and detector *)

\* the matches of the result for region r and the detector
MatchesOf(r, name) ==
    {k \in MatchIds : det_result[k].region = r /\ det_result[k].pii_type = name}

\* the texts of the first candidate of the detector in region r: what the
\* pattern matched, and what its capturing groups took
FirstCandidateTexts(name, r) ==
    LET first == re_finditer(name, det_regions[r])[1]
    IN {first.whole} \cup SeqRange(first.groups)

\* a candidate of the card pattern after the first one passes the Luhn rule
LaterCardPasses(r) ==
    LET cands == re_finditer("credit_card", det_regions[r])
    IN \E j \in 2..Len(cands) : PassesLuhn(cands[j].whole)

\* C30: detect_pii returns at most one match per region and active detector,
\* built from the first candidate of the pattern only: a region whose first
\* card-shaped candidate fails the Luhn rule has no credit_card match, also
\* when a later candidate in the same text passes it.
C30_OneMatchFromFirstCandidate ==
    DetReturned =>
        /\ \A r \in RegionIds : \A name \in MandatoryNames \cup OptionalNames :
              Cardinality(MatchesOf(r, name)) <= 1
        /\ \A k \in MatchIds :
              /\ Finds(det_result[k].pii_type, det_result[k].region)
              /\ det_result[k].matched_text
                    \in FirstCandidateTexts(det_result[k].pii_type, det_result[k].region)
        /\ \A r \in RegionIds :
              (Finds("credit_card", r) /\ ~PassesLuhn(FirstMatched("credit_card", r)))
                  => MatchesOf(r, "credit_card") = {}

\* a region with a failing card number followed by a passing one came back
\* without a credit_card match
C30_Witness ==
    /\ DetReturned
    /\ \E r \in RegionIds :
          /\ Finds("credit_card", r)
          /\ ~PassesLuhn(FirstMatched("credit_card", r))
          /\ LaterCardPasses(r)
          /\ MatchesOf(r, "credit_card") = {}

----------------------------------------------------------------------------
(* The job: a complete job *)

\* C27: once the status of a job is complete it stays complete: no later
\* request on the job (a repeated generate, a process, a redaction update)
\* changes its status.
C27_CompleteIsFinal == [][status = "complete" => status' = "complete"]_vars

----------------------------------------------------------------------------
(* Name detection: properties *)

\* C21: when spaCy or its model cannot be loaded, detect_names_ner returns
\* an empty list without raising, and the pattern-based matches of detect_pii
\* for the frame are kept unchanged.
C21_NamesUnavailableKeepsPatterns ==
    (ner_pc = "done" /\ name_detection /\ ~spacy_loads) =>
        /\ name_matches = <<>>
        /\ pii_matches = detect_pii(ner_regions, <<>>)

\* name detection was on, the model could not be loaded, and the frame kept
\* a pattern match
C21_Witness ==
    /\ ner_pc = "done" /\ name_detection /\ ~spacy_loads
    /\ pii_matches # <<>>

----------------------------------------------------------------------------
(* Scoring: properties *)

Scored == sc_pc = "scored"

\* the sum over the pixels of |a - b|
RECURSIVE TrueAbsDiffSum(_, _, _)
TrueAbsDiffSum(a, b, p) ==
    IF p > Len(a) THEN 0
    ELSE (IF a[p] >= b[p] THEN a[p] - b[p] ELSE b[p] - a[p]) + TrueAbsDiffSum(a, b, p + 1)

\* C25: for every frame after the first, the difference score is the mean
\* over the pixels of |a - b| between its 8-bit pixels and those of the
\* immediately preceding frame, a value in 0..255 with no wrap-around modulo
\* 256; the difference score of the first frame is 0.  (Stated of the frames
\* that are readable and follow a readable frame; the scores are kept times
\* the number of pixels.)
C25_MeanAbsoluteDifference ==
    Scored =>
        /\ differences[1] = 0
        /\ \A i \in 2..Len(sc_frames) :
              (sc_frames[i].file = "ok" /\ sc_frames[i - 1].file = "ok") =>
                  differences[i]
                      = TrueAbsDiffSum(sc_frames[i].pixels, sc_frames[i - 1].pixels, 1)

Unreadable(i) == sc_frames[i].file \in {"missing", "unreadable"}

\* the last frames, which get the tail bonus when they have an image
TailFrames == {i \in 1..Len(sc_frames) : i > Len(sc_frames) - 3}

\* C26: a frame whose image is missing or unreadable gets difference score 0
\* and stability score 0, also when it is one of the tail frames, and the
\* scoring ends with a score for every frame whatever frames are unreadable.
C26_UnreadableScoresZero ==
    /\ sc_pc \in {"differences", "stability", "scored"}
    /\ Scored =>
          /\ Len(differences) = Len(sc_frames)
          /\ Len(stability_scores) = Len(sc_frames)
          /\ \A i \in 1..Len(sc_frames) :
                Unreadable(i) => differences[i] = 0 /\ stability_scores[i] = 0

\* a missing frame and an unreadable frame among the tail frames scored 0
\* while a readable tail frame got the bonus
C26_Witness ==
    /\ Scored
    /\ \E i, j, k \in TailFrames :
          /\ sc_frames[i].file = "missing" /\ stability_scores[i] = 0
          /\ sc_frames[j].file = "unreadable" /\ stability_scores[j] = 0
          /\ sc_frames[k].file = "ok" /\ stability_scores[k] > 0

----------------------------------------------------------------------------
(* The document: properties *)

Built == pdf_pc = "built"

MarkerNumber(i) == DecimalValue(pdf_lines[i].digits)

IsMarker(i) == pdf_lines[i].kind = "marker"

\* the marker at line i is one to skip: its number is not positive, is no key
\* of the frame mapping, or maps to a missing image file
ToSkip(i) ==
    /\ IsMarker(i)
    /\ \/ MarkerNumber(i) <= 0
       \/ MarkerNumber(i) \notin FrameKeys
       \/ pdf_frames[MarkerNumber(i)] \in {"absent", "missing"}

\* the marker at line i names a frame whose image can be embedded
Embeddable(i) ==
    /\ IsMarker(i)
    /\ MarkerNumber(i) \in FrameKeys
    /\ pdf_frames[MarkerNumber(i)] = "ok"

\* the story the lines from i on stand for, the markers to skip (and those
\* whose image cannot be read) left out
RECURSIVE StoryFrom(_)
StoryFrom(i) ==
    IF i > Len(pdf_lines) THEN <<>>
    ELSE (CASE pdf_lines[i].kind = "blank" ->
                  <<[el |-> "Spacer", style |-> "", num |-> 6]>>
            [] pdf_lines[i].kind = "title" ->
                  <<[el |-> "Paragraph", style |-> "DocTitle", num |-> 0]>>
            [] pdf_lines[i].kind = "body" ->
                  <<[el |-> "Paragraph", style |-> "BodyText", num |-> 0]>>
            [] Embeddable(i) ->
                  <<[el |-> "Image", style |-> "", num |-> MarkerNumber(i)],
                    [el |-> "Spacer", style |-> "", num |-> 10]>>
            [] OTHER -> <<>>)
         \o StoryFrom(i + 1)

\* C22: generate_pdf_v2 skips every [FRAME:N] marker whose N is not positive,
\* is no key of the frame mapping, or maps to a missing image file: the
\* marker contributes nothing, the other lines and the valid markers are
\* rendered, and the loop reaches the build of the document.
C22_BadMarkersSkipped ==
    /\ pdf_pc \in {"idle", "lines", "built"}
    /\ Built => story = StoryFrom(1)

\* a document with a marker to skip, then a marker that is embedded, then a
\* line of text, was built
C22_Witness ==
    /\ Built
    /\ \E i, j, k \in 1..Len(pdf_lines) :
          /\ i < j /\ j < k
          /\ ToSkip(i)
          /\ Embeddable(j)
          /\ pdf_lines[k].kind \in {"title", "body"}
    /\ Len(story) = 3

============================================================================
